---- MODULE Spec2Model ----
(***************************************************************************)
(* A model of command_comparer.py: Command objects on a heap (identity,    *)
(* deep copies, in-place mutation of composites), the process-wide current *)
(* directory and environment, Test.run, TestSuite.run,                     *)
(* test_suite_repeater and run_tests.                                      *)
(*                                                                         *)
(* The program is single threaded.  Every operation of the program is a    *)
(* pure operator over a "world" record [heap, cwd, env, log] that returns  *)
(* the new world and the exception that left the operation (NoExc when it  *)
(* returned).  The log lists what the operation did, in order.             *)
(***************************************************************************)
EXTENDS Integers, Sequences, FiniteSets, TLC

VARIABLES
    heap,     \* Seq of Command objects; the index is the object's identity
    cwd,      \* the process-wide current directory (os.getcwd())
    env,      \* the process environment (os.environ): key -> value or Absent
    log,      \* events of the most recent operation, in program order
    last,     \* the most recent operation: what was called and what came back
    drv       \* state of the caller that drives the operations

vars == <<heap, cwd, env, log, last, drv>>

(***************************************************************************)
(* Directories.  "gone" does not exist: os.chdir to it raises.             *)
(***************************************************************************)
\* str(path / name)
JoinPath(path, name) == path \o "/" \o name

\* the repositories on disk: /root holds r1 (with s1 and s2) and r2 (with
\* s1); the relative path rel, seen from d0, holds r1 and r2; /file is a
\* regular file
RepoDirs ==
    {"/root", "/root/r1", "/root/r1/s1", "/root/r1/s2", "/root/r2", "/root/r2/s1",
     "d0/rel", "d0/rel/r1", "d0/rel/r2"}

Files == {"/file"}

Dirs == {"d0", "d1", "d2", "gone"} \cup RepoDirs
ExistingDirs == {"d0", "d1", "d2"} \cup RepoDirs

(***************************************************************************)
(* Text.  A str is a sequence of characters, bytes a sequence of byte      *)
(* names; "xff" is a byte that is no valid UTF-8.                          *)
(***************************************************************************)
NoOutput == [t |-> "none", v |-> <<>>]
StrOut(s) == [t |-> "str", v |-> s]
BytesOut(b) == [t |-> "bytes", v |-> b]

DecodeByte(b) == CASE b = "x61" -> "a" [] b = "x62" -> "b" [] OTHER -> "?"

\* bytes.decode('utf-8'): defined when every byte is valid
Decodable(b) == \A i \in 1..Len(b) : b[i] \in {"x61", "x62"}
Decode(b) == [i \in 1..Len(b) |-> DecodeByte(b[i])]

\* x in s (Python substring test)
IsSubstring(x, s) ==
    \E i \in 0..(Len(s) - Len(x)) : SubSeq(s, i + 1, i + Len(x)) = x

(***************************************************************************)
(* Validators: Include(s), Exclude(s), Func(func, description).  A Func    *)
(* is modelled by the value its predicate returns.                         *)
(***************************************************************************)
Include(s) == [kind |-> "Include", s |-> s, val |-> TRUE]
Exclude(s) == [kind |-> "Exclude", s |-> s, val |-> TRUE]
Func(val, description) == [kind |-> "Func", s |-> description, val |-> val]

\* an Include that looks for its string at the start of the output only
IncludeValidatePrefix(self, command_stdout) ==
    /\ Len(self.s) <= Len(command_stdout)
    /\ SubSeq(command_stdout, 1, Len(self.s)) = self.s

\* self.include_string in command_stdout
IncludeValidate(self, command_stdout) == IsSubstring(self.s, command_stdout)
ExcludeValidate(self, command_stdout) == ~IsSubstring(self.s, command_stdout)
FuncValidate(self, command_stdout) == self.val

ValidatorValidate(self, command_stdout) ==
    CASE self.kind = "Include" -> IncludeValidate(self, command_stdout)
      [] self.kind = "Exclude" -> ExcludeValidate(self, command_stdout)
      [] OTHER -> FuncValidate(self, command_stdout)

(***************************************************************************)
(* Exceptions: a type and a payload (the validator of a                    *)
(* ValidationException, the args of a CalledProcessError).                 *)
(***************************************************************************)
NoPayload == [kind |-> "none", s |-> <<>>, val |-> FALSE]
NoExc == [type |-> "None", payload |-> NoPayload]
Exc(type, payload) == [type |-> type, payload |-> payload]
ValidationException(validator) == Exc("ValidationException", validator)
CalledProcessError(args) ==
    Exc("CalledProcessError", [kind |-> "cmd", s |-> <<args>>, val |-> FALSE])
AssertionError == Exc("AssertionError", NoPayload)
FileNotFoundError == Exc("FileNotFoundError", NoPayload)
NotADirectoryError == Exc("NotADirectoryError", NoPayload)
UnicodeDecodeError == Exc("UnicodeDecodeError", NoPayload)
ValueError == Exc("ValueError", NoPayload)

(***************************************************************************)
(* The external process a ProcessCommand spawns, by its args: what         *)
(* subprocess.run(args, check=True, capture_output=True) gives back.       *)
(* "build" is a process whose outcome depends on the state of the system   *)
(* outside the program (sys): it prints "ab" when the system is up, exits  *)
(* non-zero when it is down, and prints "b" when it is degraded.           *)
(***************************************************************************)
ProcessArgs == {"echo_ab", "echo_b", "echo_xff", "false", "build"}
Systems == {"up", "down", "degraded"}

ProcessReturnCode(args, sys) ==
    IF args = "false" \/ (args = "build" /\ sys = "down") THEN 1 ELSE 0

ProcessStdout(args, sys) ==
    CASE args = "echo_ab" -> <<"x61", "x62">>
      [] args = "echo_b" -> <<"x62">>
      [] args = "echo_xff" -> <<"xff">>
      [] args = "build" -> IF sys = "up" THEN <<"x61", "x62">> ELSE <<"x62">>
      [] OTHER -> <<>>

(***************************************************************************)
(* The process environment.                                                *)
(***************************************************************************)
Absent == "<absent>"
EnvKeys == {"foo", "PATH"}
EnvValues == {"bar", "bin"}
InitialEnv == [k \in EnvKeys |-> IF k = "PATH" THEN "bin" ELSE Absent]

\* os.environ |= kwargs; kwargs maps the keys it does not hold to Absent
EnvUpdate(e, kwargs) ==
    [k \in EnvKeys |-> IF kwargs[k] # Absent THEN kwargs[k] ELSE e[k]]

\* os.environ.clear()
EnvClear(e) == [k \in EnvKeys |-> Absent]

(***************************************************************************)
(* Command objects, of the classes of the module: Null, Process,           *)
(* Composite.                                                              *)
(***************************************************************************)
\* Command.__init__
CommandInit(kind, validation_checks, args, commands, current) ==
    [kind |-> kind,
     working_directory |-> current,
     validation_checks |-> validation_checks,
     captured_output |-> NoOutput,
     args |-> args,
     commands |-> commands]

WorldIn(h, d, e, l, sys) == [heap |-> h, cwd |-> d, env |-> e, log |-> l, sys |-> sys]
World(h, d, e, l) == WorldIn(h, d, e, l, "up")

\* LET x == value IN Body(x), with value computed once
Let(value, Body(_)) == CHOOSE y \in {Body(x) : x \in {value}} : TRUE

Ev(e, id, dir, x) == [e |-> e, id |-> id, dir |-> dir, x |-> x]

\* the log entry of an event: the event and the environment it happened in
Emit(w, e) ==
    [w EXCEPT !.log = Append(@, [e |-> e.e, id |-> e.id, dir |-> e.dir,
                                 x |-> e.x, env |-> w.env])]

(***************************************************************************)
(* copy.deepcopy of Command objects.  memo is deepcopy's memo: the set of  *)
(* <<original, copy>> pairs made so far, so that an object reachable twice *)
(* is copied once.                                                         *)
(***************************************************************************)
RECURSIVE DeepCopyObj(_, _, _), DeepCopyList(_, _, _, _)

DeepCopyObj(h, memo, id) ==
    IF \E p \in memo : p[1] = id
    THEN [heap |-> h, memo |-> memo, id |-> (CHOOSE p \in memo : p[1] = id)[2]]
    ELSE IF h[id].kind = "Composite"
    THEN Let(DeepCopyList(h, memo, h[id].commands, <<>>), LAMBDA r :
         Let(Len(r.heap) + 1, LAMBDA nid :
            [heap |-> Append(r.heap, [h[id] EXCEPT !.commands = r.ids]),
             memo |-> r.memo \cup {<<id, nid>>},
             id |-> nid]))
    ELSE Let(Len(h) + 1, LAMBDA nid :
            [heap |-> Append(h, h[id]), memo |-> memo \cup {<<id, nid>>}, id |-> nid])

DeepCopyList(h, memo, ids, acc) ==
    IF ids = <<>>
    THEN [heap |-> h, memo |-> memo, ids |-> acc]
    ELSE Let(DeepCopyObj(h, memo, Head(ids)), LAMBDA r :
             DeepCopyList(r.heap, r.memo, Tail(ids), Append(acc, r.id)))

\* copy.deepcopy(self)
DeepCopy(h, id) ==
    Let(DeepCopyObj(h, {}, id), LAMBDA r : [heap |-> r.heap, id |-> r.id])

(***************************************************************************)
(* Constructors.  Each returns the new heap and the new object's id.       *)
(***************************************************************************)
NullCommand(h, current) ==
    [heap |-> Append(h, CommandInit("Null", <<>>, "", <<>>, current)),
     id |-> Len(h) + 1]

ProcessCommand(h, current, args, validation_checks) ==
    [heap |-> Append(h, CommandInit("Process", validation_checks, args, <<>>, current)),
     id |-> Len(h) + 1]

\* a constructor that keeps the arguments themselves as children
CommandsSharing(h, current, args) ==
    [heap |-> Append(h, CommandInit("Composite", <<>>, "", args, current)),
     id |-> Len(h) + 1]

\* Commands.__init__: the children are deep copies of the arguments
Commands(h, current, args) ==
    Let(DeepCopyList(h, {}, args, <<>>), LAMBDA r :
        [heap |-> Append(r.heap, CommandInit("Composite", <<>>, "", r.ids, current)),
         id |-> Len(r.heap) + 1])

(***************************************************************************)
(* with_working_directory and add_validation_checks.                       *)
(***************************************************************************)
\* a with_working_directory that retargets the receiver and returns it
CommandWithWorkingDirectoryInPlace(h, id, working_directory) ==
    [heap |-> [h EXCEPT ![id].working_directory = working_directory], id |-> id]

\* Command.with_working_directory (Null, Process): a retargeted deep copy
CommandWithWorkingDirectory(h, id, working_directory) ==
    Let(DeepCopy(h, id), LAMBDA clone :
        [heap |-> [clone.heap EXCEPT ![clone.id].working_directory = working_directory],
         id |-> clone.id])

\* an add_validation_checks that puts the new checks before the old ones
CommandAddValidationChecksFirst(h, id, validation_checks) ==
    Let(DeepCopy(h, id), LAMBDA clone :
        [heap |-> [clone.heap EXCEPT ![clone.id].validation_checks =
                       validation_checks \o h[id].validation_checks],
         id |-> clone.id])

\* Command.add_validation_checks (Null, Process): a deep copy whose checks
\* are the receiver's followed by the new ones
CommandAddValidationChecks(h, id, validation_checks) ==
    Let(DeepCopy(h, id), LAMBDA clone :
        [heap |-> [clone.heap EXCEPT ![clone.id].validation_checks =
                       h[id].validation_checks \o validation_checks],
         id |-> clone.id])

RECURSIVE WithWorkingDirectory(_, _, _), WithWorkingDirectoryEach(_, _, _, _)
RECURSIVE AddValidationChecks(_, _, _), AddValidationChecksEach(_, _, _, _)

\* a composite without an override: the with_working_directory of Command
CommandsWithWorkingDirectoryInherited(h, id, working_directory) ==
    CommandWithWorkingDirectory(h, id, working_directory)

\* Commands.with_working_directory: replaces the children by their
\* retargeted versions and returns self
CommandsWithWorkingDirectory(h, id, working_directory) ==
    Let(WithWorkingDirectoryEach(h, h[id].commands, working_directory, <<>>), LAMBDA r :
        [heap |-> [r.heap EXCEPT ![id].commands = r.ids], id |-> id])

\* command.with_working_directory(...), dispatched on the receiver's class
WithWorkingDirectory(h, id, working_directory) ==
    IF h[id].kind = "Composite"
    THEN CommandsWithWorkingDirectory(h, id, working_directory)
    ELSE CommandWithWorkingDirectory(h, id, working_directory)

WithWorkingDirectoryEach(h, ids, working_directory, acc) ==
    IF ids = <<>>
    THEN [heap |-> h, ids |-> acc]
    ELSE Let(WithWorkingDirectory(h, Head(ids), working_directory), LAMBDA r :
             WithWorkingDirectoryEach(r.heap, Tail(ids), working_directory,
                                      Append(acc, r.id)))

\* Commands.add_validation_checks: pushes the checks onto every child and
\* returns self
CommandsAddValidationChecks(h, id, validation_checks) ==
    Let(AddValidationChecksEach(h, h[id].commands, validation_checks, <<>>), LAMBDA r :
        [heap |-> [r.heap EXCEPT ![id].commands = r.ids], id |-> id])

AddValidationChecks(h, id, validation_checks) ==
    IF h[id].kind = "Composite"
    THEN CommandsAddValidationChecks(h, id, validation_checks)
    ELSE CommandAddValidationChecks(h, id, validation_checks)

AddValidationChecksEach(h, ids, validation_checks, acc) ==
    IF ids = <<>>
    THEN [heap |-> h, ids |-> acc]
    ELSE Let(AddValidationChecks(h, Head(ids), validation_checks), LAMBDA r :
             AddValidationChecksEach(r.heap, Tail(ids), validation_checks,
                                     Append(acc, r.id)))

(***************************************************************************)
(* Command.run and the _invoke of each class.                              *)
(***************************************************************************)
\* os.chdir(self.working_directory): the current directory afterwards
RunChdir(current, working_directory) == working_directory

\* a run() that restores the directory after _invoke, not in a finally clause
RunFinallyOnlyOnReturn(saved_cwd, current, exc) ==
    IF exc = NoExc THEN saved_cwd ELSE current

\* finally: os.chdir(saved_cwd): the current directory afterwards
RunFinally(saved_cwd, current, exc) == saved_cwd

RECURSIVE Run(_, _), InvokeEach(_, _)

\* what a "raise" entry of the log tells about the exception
RaiseMark(exc) == [kind |-> exc.type, s |-> exc.payload.s, val |-> exc.payload.val]

\* a composite that goes on with the next child after one raised
InvokeAbortsNever(exc) == FALSE

\* for command in self.commands: command.run() -- an exception ends the loop
InvokeAborts(exc) == exc # NoExc

\* NullCommand._invoke
NullInvoke(w, id) == [w |-> w, exc |-> NoExc, out |-> StrOut(<<>>)]

\* ProcessCommand._invoke: subprocess.run(check=True) raises on a non-zero
\* return code, else the captured stdout (bytes) is returned
ProcessInvoke(w, id) ==
    LET args == w.heap[id].args
    IN IF ProcessReturnCode(args, w.sys) # 0
       THEN [w |-> w, exc |-> CalledProcessError(args), out |-> NoOutput]
       ELSE [w |-> w, exc |-> NoExc, out |-> BytesOut(ProcessStdout(args, w.sys))]

\* Commands._invoke: run every child in order, stop at the first that raises
CommandsInvoke(w, id) ==
    Let(InvokeEach(w, w.heap[id].commands), LAMBDA r :
        [w |-> r.w, exc |-> r.exc,
         out |-> IF r.exc = NoExc THEN StrOut(<<>>) ELSE NoOutput])

Invoke(w, id) ==
    CASE w.heap[id].kind = "Null" -> NullInvoke(w, id)
      [] w.heap[id].kind = "Process" -> ProcessInvoke(w, id)
      [] OTHER -> CommandsInvoke(w, id)

\* Command.run
Run(w, id) ==
    LET saved_cwd == w.cwd
        wd == w.heap[id].working_directory
    IN Let(Emit(w, Ev("run", id, w.cwd, NoPayload)), LAMBDA w1 :
       IF wd \notin ExistingDirs
       THEN \* os.chdir raises; the finally clause still runs
            Let([w1 EXCEPT !.cwd = RunFinally(saved_cwd, w1.cwd, FileNotFoundError)],
                LAMBDA w2 :
                [w |-> Emit(w2, Ev("raise", id, w2.cwd, RaiseMark(FileNotFoundError))),
                 exc |-> FileNotFoundError])
       ELSE Let([w1 EXCEPT !.cwd = RunChdir(w1.cwd, wd)], LAMBDA w2 :
            Let(Emit(w2, Ev("invoke", id, w2.cwd, NoPayload)), LAMBDA w3 :
            Let(Invoke(w3, id), LAMBDA r :
            Let(IF r.exc = NoExc
                THEN [r.w EXCEPT !.heap[id].captured_output = r.out]
                ELSE r.w, LAMBDA w4 :
            Let([w4 EXCEPT !.cwd = RunFinally(saved_cwd, w4.cwd, r.exc)], LAMBDA w5 :
                [w |-> Emit(w5, Ev(IF r.exc = NoExc THEN "return" ELSE "raise",
                                   id, w5.cwd,
                                   IF r.exc = NoExc THEN NoPayload ELSE RaiseMark(r.exc))),
                 exc |-> r.exc]))))))

InvokeEach(w, ids) ==
    IF ids = <<>>
    THEN [w |-> w, exc |-> NoExc]
    ELSE Let(Run(w, Head(ids)), LAMBDA r :
             IF InvokeAborts(r.exc) THEN r ELSE InvokeEach(r.w, Tail(ids)))

(***************************************************************************)
(* Command.validate.                                                       *)
(***************************************************************************)
RECURSIVE CheckEach(_, _, _, _), Validate(_, _), ValidateEach(_, _)

\* the for loop of Command.validate from the i-th check on
CheckEach(w, id, output_str, i) ==
    LET checks == w.heap[id].validation_checks
    IN IF i > Len(checks)
       THEN [w |-> w, exc |-> NoExc]
       ELSE Let(Emit(w, Ev("check", id, w.cwd, checks[i])), LAMBDA w1 :
                IF ~ValidatorValidate(checks[i], output_str)
                THEN [w |-> Emit(w1, Ev("fail", id, w.cwd, checks[i])),
                      exc |-> ValidationException(checks[i])]
                ELSE CheckEach(w1, id, output_str, i + 1))

\* Command.validate (Null, Process)
CommandValidate(w, id) ==
    LET out == w.heap[id].captured_output
    IN Let(Emit(w, Ev("validate", id, w.cwd, NoPayload)), LAMBDA w1 :
       IF out = NoOutput
       THEN [w |-> Emit(w1, Ev("fail", id, w.cwd, NoPayload)), exc |-> AssertionError]
       ELSE IF out.t = "bytes" /\ ~Decodable(out.v)
       THEN [w |-> Emit(w1, Ev("fail", id, w.cwd, NoPayload)), exc |-> UnicodeDecodeError]
       ELSE Let(IF out.t = "str" THEN out.v ELSE Decode(out.v), LAMBDA output_str :
                CheckEach(w1, id, output_str, 1)))

\* Commands.validate: validate every child in order
CommandsValidate(w, id) ==
    Let(Emit(w, Ev("validate", id, w.cwd, NoPayload)), LAMBDA w1 :
        ValidateEach(w1, w.heap[id].commands))

Validate(w, id) ==
    IF w.heap[id].kind = "Composite"
    THEN CommandsValidate(w, id)
    ELSE CommandValidate(w, id)

ValidateEach(w, ids) ==
    IF ids = <<>>
    THEN [w |-> w, exc |-> NoExc]
    ELSE Let(Validate(w, Head(ids)), LAMBDA r :
             IF r.exc # NoExc THEN r ELSE ValidateEach(r.w, Tail(ids)))

(***************************************************************************)
(* Inputs the callers draw from.                                           *)
(***************************************************************************)
IncA == Include(<<"a">>)
ExcAB == Exclude(<<"a", "b">>)
FuncF == Func(FALSE, <<"f">>)

\* lists of checks passed to add_validation_checks
CheckLists == {<<IncA>>, <<ExcAB>>}

\* where Commands are constructed, and where with_working_directory sends them
ConstructionDir == "d0"
TargetDirs == {"d1", "gone"}

Leaf(kind, args, checks) == [kind |-> kind, args |-> args, checks |-> checks]

\* the leaf Commands a configuration is built from:
\*   a Null; a process that passes its checks; one whose second check fails;
\*   one whose first check fails; one that exits non-zero; one whose output
\*   is not valid UTF-8
LeafTemplates ==
    {Leaf("Null", "", <<>>),
     Leaf("Process", "echo_ab", <<IncA>>),
     Leaf("Process", "echo_ab", <<IncA, ExcAB>>),
     Leaf("Process", "echo_b", <<IncA, ExcAB>>),
     Leaf("Process", "false", <<>>),
     Leaf("Process", "echo_xff", <<>>)}

SmallLeafTemplates ==
    {Leaf("Null", "", <<>>),
     Leaf("Process", "echo_ab", <<ExcAB>>),
     Leaf("Process", "false", <<>>)}

\* NullCommand() or ProcessCommand(args, validation_checks=checks)
MkLeaf(h, t) ==
    CASE t.kind = "Null" -> NullCommand(h, ConstructionDir)
      [] OTHER -> ProcessCommand(h, ConstructionDir, t.args, t.checks)

\* the object graphs a caller constructs:
\*   leaf: a            one: Commands(a)         none: Commands()
\*   two: Commands(a, b)                         twice: Commands(a, a)
\*   nested: Commands(a, Commands(b))            three: Commands(a, b, c)
Scenario(shape, a, b, c) == [shape |-> shape, a |-> a, b |-> b, c |-> c]

Scenarios ==
    LET n == Leaf("Null", "", <<>>)
    IN  {Scenario("leaf", a, n, n) : a \in LeafTemplates}
        \cup {Scenario("none", n, n, n)}
        \cup {Scenario("one", a, n, n) : a \in LeafTemplates}
        \cup {Scenario("twice", a, n, n) : a \in LeafTemplates}
        \cup {Scenario("two", a, b, n) : a \in LeafTemplates, b \in LeafTemplates}
        \cup {Scenario("nested", a, b, n) : a \in LeafTemplates, b \in LeafTemplates}
        \cup {Scenario("three", a, b, c) :
                a \in SmallLeafTemplates, b \in SmallLeafTemplates,
                c \in SmallLeafTemplates}

\* the constructor calls of a scenario; root is the object the caller uses,
\* given the objects that were arguments of a Commands(...) call
Constructed(r, args) == [heap |-> r.heap, root |-> r.id, given |-> args]

Build(h0, s) ==
    Let(MkLeaf(h0, s.a), LAMBDA ra :
    Let(MkLeaf(ra.heap, s.b), LAMBDA rb :
    Let(MkLeaf(rb.heap, s.c), LAMBDA rc :
        CASE s.shape = "leaf" -> Constructed(ra, {})
          [] s.shape = "none" ->
               Constructed(Commands(h0, ConstructionDir, <<>>), {})
          [] s.shape = "one" ->
               Constructed(Commands(ra.heap, ConstructionDir, <<ra.id>>), {ra.id})
          [] s.shape = "twice" ->
               Constructed(Commands(ra.heap, ConstructionDir, <<ra.id, ra.id>>),
                           {ra.id})
          [] s.shape = "two" ->
               Constructed(Commands(rb.heap, ConstructionDir, <<ra.id, rb.id>>),
                           {ra.id, rb.id})
          [] s.shape = "nested" ->
               Let(Commands(rb.heap, ConstructionDir, <<rb.id>>), LAMBDA ri :
                   Constructed(Commands(ri.heap, ConstructionDir, <<ra.id, ri.id>>),
                               {ra.id, rb.id, ri.id}))
          [] OTHER ->
               Constructed(Commands(rc.heap, ConstructionDir,
                                    <<ra.id, rb.id, rc.id>>),
                           {ra.id, rb.id, rc.id}))))

NoOp == [op |-> "none", id |-> 0, dir |-> "", checks |-> <<>>, ret |-> 0,
         exc |-> NoExc]
Op(op, id, dir, checks, ret, exc) ==
    [op |-> op, id |-> id, dir |-> dir, checks |-> checks, ret |-> ret, exc |-> exc]

(***************************************************************************)
(* SpecCmd: a caller that has constructed Commands and calls their public  *)
(* methods in any order, MaxOps times.  drv.refs are the objects the       *)
(* caller holds a reference to: the one it constructed last and the ones a *)
(* method returned to it.  drv.given are the objects it passed to a        *)
(* Commands(...) constructor.  drv.ran are the objects on which run() has   *)
(* returned normally, called by the caller or by a composite.              *)
(***************************************************************************)
MaxOps == 3

\* the caller is the one that calls the methods of Commands
CallerIsCmd == "given" \in DOMAIN drv

InitCmd ==
    \E s \in Scenarios :
        \E b \in {Build(<<>>, s)} :
           /\ heap = b.heap
           /\ cwd \in {"d0", "d1"}
           /\ env = InitialEnv
           /\ log = <<>>
           /\ last = NoOp
           /\ drv = [refs |-> {b.root}, n |-> 0, heap0 |-> b.heap, ran |-> {},
                     given |-> b.given]

\* the objects whose run() returned normally in a log
Completed(events) ==
    {events[i].id : i \in {j \in DOMAIN events : events[j].e = "return"}}

CmdReturned(r, op) ==
    /\ heap' = r.heap
    /\ drv' = [drv EXCEPT !.refs = @ \cup {r.id}, !.n = @ + 1]
    /\ last' = op
    /\ log' = <<>>
    /\ UNCHANGED <<cwd, env>>

CmdDone(r, op) ==
    /\ heap' = r.w.heap
    /\ cwd' = r.w.cwd
    /\ env' = r.w.env
    /\ log' = r.w.log
    /\ last' = op
    /\ drv' = [drv EXCEPT !.n = @ + 1, !.ran = @ \cup Completed(r.w.log)]

CmdWithWorkingDirectory ==
    /\ drv.n < MaxOps
    /\ \E id \in drv.refs, d \in TargetDirs :
        \E r \in {WithWorkingDirectory(heap, id, d)} :
           CmdReturned(r, Op("with_working_directory", id, d, <<>>, r.id, NoExc))

CmdAddValidationChecks ==
    /\ drv.n < MaxOps
    /\ \E id \in drv.refs, checks \in CheckLists :
        \E r \in {AddValidationChecks(heap, id, checks)} :
           CmdReturned(r, Op("add_validation_checks", id, "", checks, r.id, NoExc))

CmdRun ==
    /\ drv.n < MaxOps
    /\ \E id \in drv.refs :
        \E r \in {Run(World(heap, cwd, env, <<>>), id)} :
           CmdDone(r, Op("run", id, cwd, <<>>, 0, r.exc))

CmdValidate ==
    /\ drv.n < MaxOps
    /\ \E id \in drv.refs :
        \E r \in {Validate(World(heap, cwd, env, <<>>), id)} :
           CmdDone(r, Op("validate", id, cwd, <<>>, 0, r.exc))

NextCmd ==
    \/ CmdWithWorkingDirectory
    \/ CmdAddValidationChecks
    \/ CmdRun
    \/ CmdValidate

SpecCmd == InitCmd /\ [][NextCmd]_vars

(***************************************************************************)
(* Reading the log.                                                        *)
(***************************************************************************)
IsExit(e) == e.e \in {"return", "raise"}

\* the events of kind k, in order
EventsOf(l, K) == SelectSeq(l, LAMBDA e : e.e \in K)

\* the exit event of the run() that the "run" event at i starts: the first
\* later position where as many runs have exited as have started
Balance(l, i, j) ==
    Cardinality({k \in i..j : l[k].e = "run"})
        - Cardinality({k \in i..j : IsExit(l[k])})

HasExit(l, i) == \E j \in (i + 1)..Len(l) : Balance(l, i, j) = 0
ExitOf(l, i) == CHOOSE j \in (i + 1)..Len(l) :
                    /\ Balance(l, i, j) = 0
                    /\ \A k \in (i + 1)..(j - 1) : Balance(l, i, k) # 0

\* the objects reachable from id through commands
RECURSIVE Reach(_, _)
Reach(h, id) ==
    {id} \cup UNION {Reach(h, h[id].commands[k]) : k \in DOMAIN h[id].commands}

(***************************************************************************)
(* C1: Command.run() of any variant switches the current directory to the  *)
(* command's working_directory for _invoke, and when run() returns or      *)
(* raises the current directory is what it was immediately before the      *)
(* call; this holds for the call itself and for the run() of every child   *)
(* at any depth.                                                           *)
(***************************************************************************)
C1_RunRestoresCwd ==
    last.op = "run" =>
        /\ cwd = last.dir
        /\ \A i \in DOMAIN log :
            /\ log[i].e = "invoke" =>
                   log[i].dir = heap[log[i].id].working_directory
            /\ log[i].e = "run" =>
                   /\ HasExit(log, i)
                   /\ log[ExitOf(log, i)].id = log[i].id
                   /\ log[ExitOf(log, i)].dir = log[i].dir

\* a nested composite whose grandchild raised in a directory other than the
\* caller's
C1_Witness ==
    /\ last.op = "run"
    /\ last.exc.type = "CalledProcessError"
    /\ heap[last.id].kind = "Composite"
    /\ \E c \in DOMAIN heap[last.id].commands :
        LET inner == heap[last.id].commands[c]
        IN /\ heap[inner].kind = "Composite"
           /\ \E i \in DOMAIN log, j \in DOMAIN log :
                /\ log[i].e = "invoke" /\ log[i].id \in Reach(heap, inner) \ {inner}
                /\ log[i].dir # last.dir
                /\ log[j].e = "raise" /\ log[j].id = log[i].id

(***************************************************************************)
(* C9: on a Null or Process Command, with_working_directory and            *)
(* add_validation_checks return a new object, distinct from the receiver,  *)
(* that is the receiver with the override applied; the receiver and every  *)
(* object that existed before the call (all clones returned earlier        *)
(* included) keep their working_directory, validation checks and captured  *)
(* output.                                                                 *)
(***************************************************************************)
C9_CloneStep ==
    /\ drv'.n = drv.n + 1
    /\ last'.op \in {"with_working_directory", "add_validation_checks"}
    /\ heap[last'.id].kind # "Composite"

C9_CloneLeavesReceiver ==
    [][C9_CloneStep =>
        /\ last'.ret \notin DOMAIN heap
        /\ last'.ret \in DOMAIN heap'
        /\ last'.ret # last'.id
        /\ \A i \in DOMAIN heap : heap'[i] = heap[i]
        /\ last'.op = "with_working_directory" =>
              heap'[last'.ret] =
                  [heap[last'.id] EXCEPT !.working_directory = last'.dir]
        /\ last'.op = "add_validation_checks" =>
              heap'[last'.ret] =
                  [heap[last'.id] EXCEPT !.validation_checks = @ \o last'.checks]
      ]_vars

\* a clone was returned and run, then the receiver was cloned again
C9_Witness ==
    /\ last.op \in {"with_working_directory", "add_validation_checks"}
    /\ heap[last.id].kind = "Process"
    /\ heap[last.id].captured_output = NoOutput
    /\ \E r \in drv.refs \ {last.id, last.ret} :
        /\ heap[r].captured_output # NoOutput
        /\ heap[r].working_directory # heap[last.id].working_directory

(***************************************************************************)
(* Test.run.                                                               *)
(***************************************************************************)
NoDir == ""
NoCommand == 0

Test(name, test_command, repo_root_setup_command, setup_command) ==
    [name |-> name,
     test_command |-> test_command,
     repo_root_setup_command |-> repo_root_setup_command,
     setup_command |-> setup_command]

TestResult(name, time_delta, command) ==
    [name |-> name, time_delta |-> time_delta, command |-> command]

NoResult == TestResult("", 0, NoCommand)

StageMark(stage) == [kind |-> "stage", s |-> <<stage>>, val |-> FALSE]

\* repo_root = repo_root or Path.cwd()
OrCwd(dir, current) == IF dir = NoDir THEN current ELSE dir

\* the directory each stage's Command is retargeted to
RootSetupDir(repo_root, working_directory) == repo_root
SetupDir(repo_root, working_directory) == working_directory
TestDir(repo_root, working_directory) == working_directory

\* a run that leaves the try block only when a Command's run() raises
StageAbortsOnRunOnly(exc) == exc # NoExc /\ exc.type # "ValidationException"

\* inside the try block of Test.run, a raised exception ends the block
StageAborts(exc) == exc # NoExc

\* except Exception: print(...); raise
TestExcept(exc) == exc

\* a stage whose timer is stopped after the validation
TestStageTimesValidation(w, command, dir, stage) ==
    Let(WithWorkingDirectory(w.heap, command, dir), LAMBDA c :
    Let(Emit([w EXCEPT !.heap = c.heap], Ev("stage", c.id, dir, StageMark(stage))),
        LAMBDA w1 :
    Let(IF stage = "test"
        THEN Emit(w1, Ev("timer_start", c.id, w1.cwd, NoPayload))
        ELSE w1, LAMBDA w2 :
    Let(Run(w2, c.id), LAMBDA r :
        IF r.exc # NoExc
        THEN [w |-> r.w, exc |-> r.exc, id |-> c.id]
        ELSE Let(Validate(r.w, c.id), LAMBDA v :
                 [w |-> IF stage = "test" /\ v.exc = NoExc
                        THEN Emit(v.w, Ev("timer_stop", c.id, v.w.cwd, NoPayload))
                        ELSE v.w,
                  exc |-> v.exc, id |-> c.id])))))

\* one stage of Test.run: command.with_working_directory(dir), run(),
\* validate().  The test Command's run() is the one timeit measures.
TestStage(w, command, dir, stage) ==
    Let(WithWorkingDirectory(w.heap, command, dir), LAMBDA c :
    Let(Emit([w EXCEPT !.heap = c.heap], Ev("stage", c.id, dir, StageMark(stage))),
        LAMBDA w1 :
    Let(IF stage = "test"
        THEN Emit(w1, Ev("timer_start", c.id, w1.cwd, NoPayload))
        ELSE w1, LAMBDA w2 :
    Let(Run(w2, c.id), LAMBDA r :
    Let(IF stage = "test" /\ r.exc = NoExc
        THEN Emit(r.w, Ev("timer_stop", c.id, r.w.cwd, NoPayload))
        ELSE r.w, LAMBDA w3 :
        IF r.exc # NoExc
        THEN [w |-> w3, exc |-> r.exc, id |-> c.id]
        ELSE Let(Validate(w3, c.id), LAMBDA v :
                 [w |-> v.w, exc |-> v.exc, id |-> c.id]))))))

\* Test.run(repo_root, working_directory); elapsed is what timeit measures
TestRun(w, self, repo_root_arg, working_directory_arg, elapsed) ==
    LET repo_root == OrCwd(repo_root_arg, w.cwd)
        working_directory == OrCwd(working_directory_arg, w.cwd)
    IN Let(TestStage(w, self.repo_root_setup_command,
                     RootSetupDir(repo_root, working_directory), "root"), LAMBDA s1 :
       IF StageAborts(s1.exc)
       THEN [w |-> s1.w, exc |-> TestExcept(s1.exc), result |-> NoResult]
       ELSE
       Let(TestStage(s1.w, self.setup_command,
                     SetupDir(repo_root, working_directory), "setup"), LAMBDA s2 :
       IF StageAborts(s2.exc)
       THEN [w |-> s2.w, exc |-> TestExcept(s2.exc), result |-> NoResult]
       ELSE
       Let(TestStage(s2.w, self.test_command,
                     TestDir(repo_root, working_directory), "test"), LAMBDA s3 :
       IF StageAborts(s3.exc)
       THEN [w |-> s3.w, exc |-> TestExcept(s3.exc), result |-> NoResult]
       ELSE [w |-> s3.w, exc |-> NoExc,
             result |-> TestResult(self.name, elapsed, s3.id)])))

(***************************************************************************)
(* SpecTest: a Test is constructed from three Commands and run MaxRuns     *)
(* times, against any directories.                                         *)
(***************************************************************************)
MaxRuns == 2

\* elapsed times timeit may measure, in microseconds
Elapsed == {1, 2}

RootDirs == {"d1", NoDir}
WorkDirs == {"d2", "gone"}

SetupScenarios ==
    LET n == Leaf("Null", "", <<>>)
    IN {Scenario("leaf", n, n, n),
        Scenario("leaf", Leaf("Process", "echo_ab", <<IncA>>), n, n),
        Scenario("leaf", Leaf("Process", "echo_ab", <<IncA, ExcAB>>), n, n),
        Scenario("leaf", Leaf("Process", "false", <<>>), n, n),
        Scenario("one", Leaf("Process", "echo_ab", <<IncA>>), n, n)}

TestScenarios ==
    LET n == Leaf("Null", "", <<>>)
    IN {Scenario("leaf", a, n, n) : a \in LeafTemplates}
       \cup {Scenario("one", a, n, n) : a \in SmallLeafTemplates}
       \cup {Scenario("nested", n, a, n) : a \in SmallLeafTemplates}

TestOp(repo_root, working_directory, result, exc) ==
    [op |-> "Test.run", repo_root |-> repo_root,
     working_directory |-> working_directory, result |-> result, exc |-> exc]

InitTest ==
    \E sr \in SetupScenarios, ss \in SetupScenarios, st \in TestScenarios :
        \E br \in {Build(<<>>, sr)} : \E bs \in {Build(br.heap, ss)} :
        \E bt \in {Build(bs.heap, st)} :
           /\ heap = bt.heap
           /\ cwd = ConstructionDir
           /\ env = InitialEnv
           /\ log = <<>>
           /\ last = NoOp
           /\ drv = [test |-> Test("t", bt.root, br.root, bs.root),
                     n |-> 0, results |-> <<>>, heap0 |-> bt.heap]

TestRunCall ==
    /\ drv.n < MaxRuns
    /\ \E repo_root \in RootDirs, working_directory \in WorkDirs, elapsed \in Elapsed :
        \E r \in {TestRun(World(heap, cwd, env, <<>>), drv.test,
                         repo_root, working_directory, elapsed)} :
           /\ heap' = r.w.heap
           /\ cwd' = r.w.cwd
           /\ env' = r.w.env
           /\ log' = r.w.log
           /\ last' = TestOp(repo_root, working_directory, r.result, r.exc)
           /\ drv' = [drv EXCEPT !.n = @ + 1,
                                 !.results = IF r.exc = NoExc
                                             THEN Append(@, r.result) ELSE @]

NextTest == TestRunCall

SpecTest == InitTest /\ [][NextTest]_vars

(***************************************************************************)
(* TestSuite.run and the environment_variables context manager.            *)
(***************************************************************************)
\* TestSuite(name, tests, environment_variables); default_env says that no
\* mapping was given, so that the field is os.environ itself
TestSuite(name, tests, environment_variables, default_env) ==
    [name |-> name, tests |-> tests,
     environment_variables |-> environment_variables,
     default_env |-> default_env]

TestSuiteResult(name, test_results) == [name |-> name, test_results |-> test_results]

NoSuiteResult == TestSuiteResult("", <<>>)

\* **self.environment_variables, expanded when run() is called
SuiteKwargs(self, e) == IF self.default_env THEN e ELSE self.environment_variables

\* an entry that replaces the environment by the overrides
EnvironmentVariablesEnterReplace(e, kwargs) == kwargs

\* environment_variables(**kwargs), up to the yield
EnvironmentVariablesEnter(e, kwargs) == EnvUpdate(e, kwargs)

\* an exit that puts the saved variables back without clearing first
EnvironmentVariablesExitNoClear(current, original_environment) ==
    EnvUpdate(current, original_environment)

\* environment_variables, the finally clause: clear, then put the copy back
EnvironmentVariablesExit(current, original_environment) ==
    EnvUpdate(EnvClear(current), original_environment)

\* a suite that goes on with the next Test after one failed
SuiteAbortsNever(exc) == FALSE

\* inside the try block of TestSuite.run an exception ends the comprehension
SuiteAborts(exc) == exc # NoExc

\* except Exception: print(...); raise
SuiteExcept(exc) == exc

RECURSIVE SuiteTests(_, _, _, _, _, _, _)

\* [test.run(repo_root, working_directory) for test in self.tests], from the
\* i-th Test on; oracle[i] is what the i-th Test meets: the time its test
\* Command takes and the state of the system outside
SuiteTests(w, tests, i, repo_root, working_directory, oracle, acc) ==
    IF i > Len(tests)
    THEN [w |-> w, exc |-> NoExc, results |-> acc]
    ELSE Let(TestRun([w EXCEPT !.sys = oracle[i].sys], tests[i],
                     repo_root, working_directory, oracle[i].elapsed), LAMBDA r :
             IF SuiteAborts(r.exc)
             THEN [w |-> r.w, exc |-> r.exc, results |-> <<>>]
             ELSE Let(IF r.exc = NoExc THEN Append(acc, r.result) ELSE acc, LAMBDA acc1 :
                      SuiteTests(r.w, tests, i + 1, repo_root, working_directory,
                                 oracle, acc1)))

\* what the log tells about a TestSuite.run that starts
SuiteMark(name) == [kind |-> "suite", s |-> <<name>>, val |-> FALSE]

\* TestSuite.run: the banner is printed before the with block is entered
TestSuiteRun(w, self, repo_root, working_directory, oracle) ==
    LET original_environment == w.env
    IN Let(Emit(w, Ev("suite", 0, working_directory, SuiteMark(self.name))), LAMBDA w1 :
       Let([w1 EXCEPT !.env = EnvironmentVariablesEnter(w1.env, SuiteKwargs(self, w1.env))],
           LAMBDA w2 :
       Let(SuiteTests(w2, self.tests, 1, repo_root, working_directory, oracle, <<>>),
           LAMBDA r :
       Let([r.w EXCEPT !.env = EnvironmentVariablesExit(r.w.env, original_environment)],
           LAMBDA w3 :
           IF r.exc # NoExc
           THEN [w |-> w3, exc |-> SuiteExcept(r.exc), result |-> NoSuiteResult]
           ELSE [w |-> w3, exc |-> NoExc,
                 result |-> TestSuiteResult(self.name, r.results)]))))

(***************************************************************************)
(* SpecSuite: a TestSuite of up to two Tests is constructed, with or       *)
(* without environment overrides, and run MaxRuns times.                   *)
(***************************************************************************)
OraclePoints ==
    {[elapsed |-> 1, sys |-> "up"], [elapsed |-> 2, sys |-> "up"],
     [elapsed |-> 1, sys |-> "down"], [elapsed |-> 1, sys |-> "degraded"]}

Oracles(n) == [1..n -> OraclePoints]

NoOverrides == [k \in EnvKeys |-> Absent]

Overrides ==
    {NoOverrides,
     [NoOverrides EXCEPT !["foo"] = "bar"],
     [NoOverrides EXCEPT !["PATH"] = "bar"],
     [NoOverrides EXCEPT !["foo"] = "bar", !["PATH"] = "bar"]}

\* the Tests a suite is made of: their test Commands (the setup Commands are
\* the two default NullCommand() objects of the dataclass, one for each
\* field, shared by all Tests)
SuiteTestCommands ==
    {Leaf("Process", "build", <<IncA>>),
     Leaf("Process", "false", <<>>),
     Leaf("Null", "", <<>>)}

TestNames == <<"t1", "t2">>

NamedLeaf(name, leaf) == [name |-> name, leaf |-> leaf]

\* field(default=NullCommand()) of Test.repo_root_setup_command and of
\* Test.setup_command: two objects, made when the class is defined
DefaultSetupCommands(h) ==
    Let(NullCommand(h, ConstructionDir), LAMBDA r :
    Let(NullCommand(r.heap, ConstructionDir), LAMBDA s :
        [heap |-> s.heap, repo_root_setup_command |-> r.id, setup_command |-> s.id]))

RECURSIVE BuildTests(_, _, _, _)
\* Test(name, command) for each named leaf, in order
BuildTests(h, named, defaults, acc) ==
    IF named = <<>>
    THEN [heap |-> h, tests |-> acc]
    ELSE Let(MkLeaf(h, Head(named).leaf), LAMBDA c :
         Let(Append(acc, Test(Head(named).name, c.id,
                              defaults.repo_root_setup_command,
                              defaults.setup_command)),
             LAMBDA acc1 :
             BuildTests(c.heap, Tail(named), defaults, acc1)))

SuiteOp(env0, result, exc) ==
    [op |-> "TestSuite.run", env0 |-> env0, result |-> result, exc |-> exc]

InitSuite ==
    \E leaves \in UNION {[1..n -> SuiteTestCommands] : n \in 0..2},
       overrides \in Overrides, default_env \in BOOLEAN,
       foo \in {Absent, "bin"} :
        \E d \in {DefaultSetupCommands(<<>>)} :
        \E b \in {BuildTests(d.heap,
                             [i \in DOMAIN leaves |-> NamedLeaf(TestNames[i], leaves[i])],
                             d, <<>>)} :
           /\ default_env => overrides = NoOverrides
           /\ heap = b.heap
           /\ cwd = ConstructionDir
           /\ env = [InitialEnv EXCEPT !["foo"] = foo]
           /\ log = <<>>
           /\ last = NoOp
           /\ drv = [suite |-> TestSuite("s", b.tests, overrides, default_env),
                     n |-> 0]

SuiteRunCall ==
    /\ drv.n < MaxRuns
    /\ \E oracle \in Oracles(Len(drv.suite.tests)) :
        \E r \in {TestSuiteRun(World(heap, cwd, env, <<>>), drv.suite, "d1", "d2", oracle)} :
           /\ heap' = r.w.heap
           /\ cwd' = r.w.cwd
           /\ env' = r.w.env
           /\ log' = r.w.log
           /\ last' = SuiteOp(env, r.result, r.exc)
           /\ drv' = [drv EXCEPT !.n = @ + 1]

NextSuite == SuiteRunCall

SpecSuite == InitSuite /\ [][NextSuite]_vars

(***************************************************************************)
(* test_suite_repeater.  test_results_per_name, a defaultdict(list), is a  *)
(* sequence of buckets [name, items] in the order the names were first     *)
(* met (a dict keeps insertion order).  Times are whole microseconds, the  *)
(* resolution of timedelta.                                                *)
(***************************************************************************)
NoName == ""

Bucket(name, items) == [name |-> name, items |-> items]

RECURSIVE SumTimeDelta(_)
\* sum((test.time_delta for test in tests), timedelta(0))
SumTimeDelta(tests) ==
    IF tests = <<>> THEN 0 ELSE Head(tests).time_delta + SumTimeDelta(Tail(tests))

\* a division that drops the remainder
DivFloor(a, b) == a \div b

\* timedelta / int, for a >= 0 and b > 0: the quotient rounded to the
\* nearest microsecond, a half going to the even neighbour
DivRoundHalfEven(a, b) ==
    LET q == a \div b
        r == a % b
    IN IF 2 * r > b \/ (2 * r = b /\ q % 2 = 1) THEN q + 1 ELSE q

\* mergeTestResults
MergeTestResults(bucket, repetitions) ==
    IF \E i \in DOMAIN bucket.items : bucket.items[i].name # bucket.name
    THEN [exc |-> AssertionError, result |-> NoResult]
    ELSE [exc |-> NoExc,
          result |-> TestResult(bucket.name,
                                DivRoundHalfEven(SumTimeDelta(bucket.items), repetitions),
                                NoCommand)]

\* a dictionary that puts a new key before the keys it holds
BucketInsertFirst(buckets, test_result) ==
    <<Bucket(test_result.name, <<test_result>>)>> \o buckets

\* test_results_per_name[name] when name is a new key: the key is added last
BucketInsert(buckets, test_result) ==
    Append(buckets, Bucket(test_result.name, <<test_result>>))

\* test_results_per_name[test_result.name].append(test_result)
RepeaterAccumulate(buckets, test_result) ==
    IF \E i \in DOMAIN buckets : buckets[i].name = test_result.name
    THEN [i \in DOMAIN buckets |->
            IF buckets[i].name = test_result.name
            THEN Bucket(buckets[i].name, Append(buckets[i].items, test_result))
            ELSE buckets[i]]
    ELSE BucketInsert(buckets, test_result)

RECURSIVE RepeaterAccumulateAll(_, _)
\* for test_result in test_suite_result.test_results: ...
RepeaterAccumulateAll(buckets, test_results) ==
    IF test_results = <<>>
    THEN buckets
    ELSE RepeaterAccumulateAll(RepeaterAccumulate(buckets, Head(test_results)),
                               Tail(test_results))

\* a handler that raises an error of its own in place of the one caught
ExceptReplaces(exc) == Exc("RuntimeError", NoPayload)

\* except Exception: print(...); raise -- inside the loop of the repeater
RepeaterExcept(exc) == exc

\* a loop that skips its first turn
RepeaterStartAtOne(repetitions) ==
    [repetitions |-> repetitions,
     repetition |-> 1,
     test_results_per_name |-> <<>>,
     test_suite_name |-> NoName]

\* the locals of test_suite_repeater when the loop starts
RepeaterStart(repetitions) ==
    [repetitions |-> repetitions,
     repetition |-> 0,
     test_results_per_name |-> <<>>,
     test_suite_name |-> NoName]

\* the body of the loop after test_suite_runner() returned test_suite_result
RepeaterStep(rep, test_suite_result) ==
    IF rep.test_suite_name # NoName /\ rep.test_suite_name # test_suite_result.name
    THEN [exc |-> AssertionError, rep |-> rep]
    ELSE [exc |-> NoExc,
          rep |-> [rep EXCEPT
                    !.test_suite_name = test_suite_result.name,
                    !.test_results_per_name =
                        RepeaterAccumulateAll(rep.test_results_per_name,
                                              test_suite_result.test_results),
                    !.repetition = rep.repetition + 1]]

\* all(len(test_results) == repetitions for ... in test_results_per_name.values())
BucketSizesOk(rep) ==
    \A i \in DOMAIN rep.test_results_per_name :
        Len(rep.test_results_per_name[i].items) = rep.repetitions

RECURSIVE MergeAll(_, _, _)
\* tuple(mergeTestResults(test_results) for test_results in ....items())
MergeAll(buckets, repetitions, acc) ==
    IF buckets = <<>>
    THEN [exc |-> NoExc, results |-> acc]
    ELSE LET r == MergeTestResults(Head(buckets), repetitions)
         IN IF r.exc # NoExc
            THEN [exc |-> r.exc, results |-> <<>>]
            ELSE MergeAll(Tail(buckets), repetitions, Append(acc, r.result))

\* test_suite_repeater after the loop
RepeaterFinish(rep) ==
    IF rep.test_suite_name = NoName
    THEN [exc |-> AssertionError, result |-> NoSuiteResult]
    ELSE IF ~BucketSizesOk(rep)
    THEN [exc |-> AssertionError, result |-> NoSuiteResult]
    ELSE LET r == MergeAll(rep.test_results_per_name, rep.repetitions, <<>>)
         IN IF r.exc # NoExc
            THEN [exc |-> r.exc, result |-> NoSuiteResult]
            ELSE [exc |-> NoExc,
                  result |-> TestSuiteResult(rep.test_suite_name, r.results)]

(***************************************************************************)
(* SpecRep: test_suite_repeater is called with up to MaxReps repetitions   *)
(* and a test_suite_runner that may return any TestSuiteResult of          *)
(* RunnerResults, or raise, each time it is called.                        *)
(***************************************************************************)
MaxReps == 3

RepElapsed == {1, 2, 3, 6}

\* the Command a TestResult of the runner refers to
RunnerCommand == 1

RunnerTestResults ==
    LET A(e) == TestResult("a", e, RunnerCommand)
        B(e) == TestResult("b", e, RunnerCommand)
    IN {<<>>}
       \cup {<<A(e)>> : e \in RepElapsed}
       \cup {<<A(e), B(f)>> : e \in RepElapsed, f \in {1, 2}}
       \cup {<<B(1), A(1)>>, <<A(1), A(1)>>, <<B(2), B(2)>>}

RunnerResults ==
    {TestSuiteResult("s", tr) : tr \in RunnerTestResults}
    \cup {TestSuiteResult("other", <<TestResult("a", 1, RunnerCommand)>>)}

RunnerExc == Exc("RuntimeError", NoPayload)

RepOp(result, exc) ==
    [op |-> "test_suite_repeater", result |-> result, exc |-> exc]

\* the caller is the one that calls test_suite_repeater with a runner of
\* its own, not run_tests
CallerIsRep == "observed" \in DOMAIN drv

InitRep ==
    /\ heap = <<>>
    /\ cwd = ConstructionDir
    /\ env = InitialEnv
    /\ log = <<>>
    /\ last = NoOp
    /\ drv = [pc |-> "idle", rep |-> RepeaterStart(0), observed |-> <<>>]

\* test_suite_repeater(test_suite_runner, repetitions) is called
RepCall ==
    /\ CallerIsRep
    /\ drv.pc = "idle"
    /\ \E repetitions \in 0..MaxReps :
        drv' = [drv EXCEPT !.pc = "loop", !.rep = RepeaterStart(repetitions)]
    /\ UNCHANGED <<heap, cwd, env, log, last>>

\* one turn of the loop: the runner raises, or returns a TestSuiteResult
RepIteration ==
    /\ CallerIsRep
    /\ drv.pc = "loop"
    /\ drv.rep.repetition < drv.rep.repetitions
    /\ \/ /\ drv' = [drv EXCEPT !.pc = "done"]
          /\ last' = RepOp(NoSuiteResult, RepeaterExcept(RunnerExc))
       \/ \E test_suite_result \in RunnerResults :
            LET r == RepeaterStep(drv.rep, test_suite_result)
                seen == Append(drv.observed, test_suite_result)
            IN IF r.exc # NoExc
               THEN /\ drv' = [drv EXCEPT !.pc = "done", !.observed = seen]
                    /\ last' = RepOp(NoSuiteResult, RepeaterExcept(r.exc))
               ELSE /\ drv' = [drv EXCEPT !.rep = r.rep, !.observed = seen]
                    /\ last' = last
    /\ UNCHANGED <<heap, cwd, env, log>>

\* the loop is over: the assertions, the merge, the return
RepReturn ==
    /\ CallerIsRep
    /\ drv.pc = "loop"
    /\ drv.rep.repetition = drv.rep.repetitions
    /\ LET r == RepeaterFinish(drv.rep)
       IN /\ drv' = [drv EXCEPT !.pc = "done"]
          /\ last' = RepOp(r.result, r.exc)
    /\ UNCHANGED <<heap, cwd, env, log>>

NextRep == RepCall \/ RepIteration \/ RepReturn

SpecRep == InitRep /\ [][NextRep]_vars

(***************************************************************************)
(* run_tests, with RepoSpec and RootedRepo.  Paths are strings; the        *)
(* relative ones are those of RelativePaths.                               *)
(***************************************************************************)
RepoNames == {"r1", "r2", "missing"}
SubNames == {"s1", "s2"}

RelativeRoots == {"rel"}
RelativePaths == RelativeRoots \cup {JoinPath(r, n) : r \in RelativeRoots, n \in RepoNames}

\* Path.resolve(): the absolute path
Resolve(path, current) ==
    IF path \in RelativePaths THEN JoinPath(current, path) ELSE path

\* Path.exists(), Path.is_dir()
Exists(path, current) == Resolve(path, current) \in ExistingDirs \cup Files
IsDir(path, current) == Resolve(path, current) \in ExistingDirs

\* path.relative_to(base): the rel that base / rel = path, ValueError if none
RelativeTo(path, base) ==
    LET rels == {JoinPath(n, sub) : n \in RepoNames, sub \in SubNames}
    IN IF \E rel \in rels : JoinPath(base, rel) = path
       THEN [exc |-> NoExc, rel |-> CHOOSE rel \in rels : JoinPath(base, rel) = path]
       ELSE [exc |-> ValueError, rel |-> ""]

RepoSpec(name, sub_directories) == [name |-> name, sub_directories |-> sub_directories]

RepoResults(name, test_suite_results) ==
    [name |-> name, test_suite_results |-> test_suite_results]

\* RootedRepo.__init__ (RepoSpec.with_base_root)
\* a RootedRepo that resolves its root without looking for it
RootedRepoUnchecked(root, repo, current) ==
    LET resolved == Resolve(JoinPath(root, repo.name), current)
    IN [exc |-> NoExc, root |-> resolved,
        sub_directories |-> [i \in DOMAIN repo.sub_directories |->
                               JoinPath(resolved, repo.sub_directories[i])]]

\* RootedRepo.__init__: root.joinpath(repo.name).resolve(strict=True), which
\* raises NotADirectoryError when root is a regular file and
\* FileNotFoundError when the joined path does not exist
RootedRepo(root, repo, current) ==
    LET joined == JoinPath(root, repo.name)
        resolved == Resolve(joined, current)
    IN IF Resolve(root, current) \in Files
       THEN [exc |-> NotADirectoryError, root |-> "", sub_directories |-> <<>>]
       ELSE IF ~Exists(joined, current)
       THEN [exc |-> FileNotFoundError, root |-> "", sub_directories |-> <<>>]
       ELSE [exc |-> NoExc, root |-> resolved,
             sub_directories |-> [i \in DOMAIN repo.sub_directories |->
                                    JoinPath(resolved, repo.sub_directories[i])]]

RECURSIVE RootedRepos(_, _, _, _)
\* [repo.with_base_root(repos_root) for repo in repos]
RootedRepos(repos, repos_root, current, acc) ==
    IF repos = <<>>
    THEN [exc |-> NoExc, rooted_repos |-> acc]
    ELSE LET r == RootedRepo(repos_root, Head(repos), current)
         IN IF r.exc # NoExc
            THEN [exc |-> r.exc, rooted_repos |-> <<>>]
            ELSE RootedRepos(Tail(repos), repos_root, current,
                             Append(acc, [root |-> r.root,
                                          sub_directories |-> r.sub_directories]))

RECURSIVE SubdirPairs(_)
\* for repo in rooted_repos: for repo_subdir in repo.sub_directories: the
\* turns of the two loops, in order
SubdirPairs(rooted_repos) ==
    IF rooted_repos = <<>>
    THEN <<>>
    ELSE LET repo == Head(rooted_repos)
         IN [i \in DOMAIN repo.sub_directories |->
                [root |-> repo.root, repo_subdir |-> repo.sub_directories[i]]]
            \o SubdirPairs(Tail(rooted_repos))

\* run_tests up to the loops: the three assertions and the rooted repos
RunTestsEnter(repos, repos_root, test_suites, current) ==
    IF ~(Exists(repos_root, current) /\ IsDir(repos_root, current))
    THEN [exc |-> AssertionError, rooted_repos |-> <<>>]
    ELSE IF ~(Len(repos) > 0)
    THEN [exc |-> AssertionError, rooted_repos |-> <<>>]
    ELSE IF ~(Len(test_suites) > 0)
    THEN [exc |-> AssertionError, rooted_repos |-> <<>>]
    ELSE RootedRepos(repos, repos_root, current, <<>>)

\* run_tests after the loops
RunTestsExit(repo_results) ==
    IF ~(Len(repo_results) > 0)
    THEN [exc |-> AssertionError, result |-> <<>>]
    ELSE [exc |-> NoExc, result |-> repo_results]

(***************************************************************************)
(* SpecRun: run_tests is called once, with repos, a repos_root, suites and *)
(* a number of repetitions taken from the sets below.  A step is a part of *)
(* run_tests that ends when a TestSuite.run has returned or when a loop    *)
(* turns; what each Test meets is chosen when its suite runs.              *)
(***************************************************************************)
RunRepos ==
    {<<>>,
     <<RepoSpec("r1", <<"s1", "s2">>)>>,
     <<RepoSpec("r1", <<"s1">>), RepoSpec("r2", <<"s1">>)>>,
     <<RepoSpec("r1", <<>>)>>,
     <<RepoSpec("r1", <<>>), RepoSpec("r2", <<"s1">>)>>,
     <<RepoSpec("r1", <<"s1">>), RepoSpec("missing", <<"s1">>)>>,
     <<RepoSpec("r2", <<"s1", "s2">>)>>}

RunRoots == {"/root", "rel", "/nowhere", "/file"}

RunRepetitions == {0, 1, 2}

SuiteSpec(name, named, environment_variables, default_env) ==
    [name |-> name, named |-> named,
     environment_variables |-> environment_variables, default_env |-> default_env]

RunSuites ==
    LET build == Leaf("Process", "build", <<IncA>>)
        null == Leaf("Null", "", <<>>)
        A == SuiteSpec("A", <<NamedLeaf("t1", build), NamedLeaf("t2", null)>>,
                       [NoOverrides EXCEPT !["foo"] = "bar"], FALSE)
        B == SuiteSpec("B", <<NamedLeaf("t1", build)>>, NoOverrides, TRUE)
        C == SuiteSpec("C", <<NamedLeaf("t1", null), NamedLeaf("t1", null)>>,
                       NoOverrides, TRUE)
        A1 == SuiteSpec("A", <<NamedLeaf("t1", null)>>, NoOverrides, TRUE)
    IN {<<>>, <<A>>, <<A, B>>, <<B, A>>, <<C>>, <<A, A1>>}

RECURSIVE BuildSuites(_, _, _, _)
\* TestSuite(name, tests, environment_variables) for each SuiteSpec, in order
BuildSuites(h, specs, defaults, acc) ==
    IF specs = <<>>
    THEN [heap |-> h, test_suites |-> acc]
    ELSE Let(BuildTests(h, Head(specs).named, defaults, <<>>), LAMBDA b :
         Let(Append(acc, TestSuite(Head(specs).name, b.tests,
                                   Head(specs).environment_variables,
                                   Head(specs).default_env)), LAMBDA acc1 :
             BuildSuites(b.heap, Tail(specs), defaults, acc1)))

RunOp(result, exc) == [op |-> "run_tests", result |-> result, exc |-> exc]

CallerIsRunTests == "repos" \in DOMAIN drv

InitRun ==
    \E repos \in RunRepos, repos_root \in RunRoots, specs \in RunSuites,
       repetitions \in RunRepetitions :
        \E d \in {DefaultSetupCommands(<<>>)} :
        \E b \in {BuildSuites(d.heap, specs, d, <<>>)} :
           /\ heap = b.heap
           /\ cwd = ConstructionDir
           /\ env = InitialEnv
           /\ log = <<>>
           /\ last = NoOp
           /\ drv = [pc |-> "idle",
                     repos |-> repos, repos_root |-> repos_root,
                     test_suites |-> b.test_suites, repetitions |-> repetitions,
                     pairs |-> <<>>, k |-> 1, u |-> 1,
                     name |-> "", rep |-> RepeaterStart(0),
                     test_suite_results |-> <<>>, repo_results |-> <<>>,
                     heap0 |-> b.heap, produced |-> <<>>]

\* what the u-th suite of test_suites returned from one run: the name of
\* the TestSuiteResult and the names of its TestResults
Produced(u, test_suite_result) ==
    [u |-> u, name |-> test_suite_result.name,
     names |-> [i \in DOMAIN test_suite_result.test_results |->
                  test_suite_result.test_results[i].name]]

\* run_tests raises exc
RunRaise(exc) ==
    /\ drv' = [drv EXCEPT !.pc = "done"]
    /\ last' = RunOp(<<>>, exc)

\* run_tests is called: the assertions, the rooted repos
RunTestsCall ==
    /\ CallerIsRunTests
    /\ drv.pc = "idle"
    /\ LET r == RunTestsEnter(drv.repos, drv.repos_root, drv.test_suites, cwd)
       IN IF r.exc # NoExc
          THEN RunRaise(r.exc)
          ELSE /\ drv' = [drv EXCEPT !.pc = "repos",
                                     !.pairs = SubdirPairs(r.rooted_repos),
                                     !.k = 1, !.repo_results = <<>>]
               /\ last' = last
    /\ UNCHANGED <<heap, cwd, env, log>>

\* a turn of the sub-directory loop starts: the name of the entry, and the
\* repeater of the first suite is entered
RunTestsSubdir ==
    /\ CallerIsRunTests
    /\ drv.pc = "repos"
    /\ drv.k <= Len(drv.pairs)
    /\ LET r == RelativeTo(drv.pairs[drv.k].repo_subdir, drv.repos_root)
       IN IF r.exc # NoExc
          THEN RunRaise(r.exc)
          ELSE /\ drv' = [drv EXCEPT !.pc = "suite", !.name = r.rel,
                                     !.test_suite_results = <<>>, !.u = 1,
                                     !.rep = RepeaterStart(drv.repetitions)]
               /\ last' = last
    /\ UNCHANGED <<heap, cwd, env, log>>

\* one repetition: test_suite.run(repo.root, repo_subdir) and the body of the
\* repeater's loop
RunTestsRepetition ==
    /\ CallerIsRunTests
    /\ drv.pc = "suite"
    /\ drv.rep.repetition < drv.rep.repetitions
    /\ LET suite == drv.test_suites[drv.u]
           pair == drv.pairs[drv.k]
       IN \E oracle \in Oracles(Len(suite.tests)) :
            \E r \in {TestSuiteRun(World(heap, cwd, env, log), suite,
                                   pair.root, pair.repo_subdir, oracle)} :
            \E st \in {RepeaterStep(drv.rep, r.result)} :
               /\ heap' = r.w.heap
               /\ cwd' = r.w.cwd
               /\ env' = r.w.env
               /\ log' = r.w.log
               /\ IF r.exc # NoExc
                  THEN RunRaise(RepeaterExcept(r.exc))
                  ELSE IF st.exc # NoExc
                  THEN /\ drv' = [drv EXCEPT !.pc = "done",
                                             !.produced = Append(@, Produced(drv.u, r.result))]
                       /\ last' = RunOp(<<>>, RepeaterExcept(st.exc))
                  ELSE /\ drv' = [drv EXCEPT !.rep = st.rep,
                                             !.produced = Append(@, Produced(drv.u, r.result))]
                       /\ last' = last

\* the repeater returns: the merged result is appended, and the next suite,
\* or the next turn of the sub-directory loop, follows
RunTestsSuiteDone ==
    /\ CallerIsRunTests
    /\ drv.pc = "suite"
    /\ drv.rep.repetition = drv.rep.repetitions
    /\ LET r == RepeaterFinish(drv.rep)
           test_suite_results == Append(drv.test_suite_results, r.result)
       IN IF r.exc # NoExc
          THEN RunRaise(r.exc)
          ELSE /\ last' = last
               /\ IF drv.u < Len(drv.test_suites)
                  THEN drv' = [drv EXCEPT !.test_suite_results = test_suite_results,
                                          !.u = drv.u + 1,
                                          !.rep = RepeaterStart(drv.repetitions)]
                  ELSE drv' = [drv EXCEPT !.test_suite_results = test_suite_results,
                                          !.repo_results =
                                              Append(drv.repo_results,
                                                     RepoResults(drv.name, test_suite_results)),
                                          !.k = drv.k + 1,
                                          !.pc = "repos"]
    /\ UNCHANGED <<heap, cwd, env, log>>

\* the loops are over: the last assertion, the return
RunTestsReturn ==
    /\ CallerIsRunTests
    /\ drv.pc = "repos"
    /\ drv.k > Len(drv.pairs)
    /\ LET r == RunTestsExit(drv.repo_results)
       IN /\ drv' = [drv EXCEPT !.pc = "done"]
          /\ last' = RunOp(r.result, r.exc)
    /\ UNCHANGED <<heap, cwd, env, log>>

NextRun ==
    \/ RunTestsCall
    \/ RunTestsSubdir
    \/ RunTestsRepetition
    \/ RunTestsSuiteDone
    \/ RunTestsReturn

SpecRun == InitRun /\ [][NextRun]_vars

(***************************************************************************)
(* SpecRepRun: test_suite_repeater is called either with a runner of the   *)
(* caller's, as in SpecRep, or by run_tests, as in SpecRun.                *)
(***************************************************************************)
InitRepRun == InitRep \/ InitRun

NextRepRun == NextRep \/ NextRun

SpecRepRun == InitRepRun /\ [][NextRepRun]_vars

(***************************************************************************)
(* Reading the log of a Test.run.                                          *)
(***************************************************************************)
\* how many run() calls are open just before the event at i
Depth(l, i) ==
    Cardinality({k \in 1..(i - 1) : l[k].e = "run"})
        - Cardinality({k \in 1..(i - 1) : IsExit(l[k])})

\* the positions of the stage marks, in order, and the window of stage k:
\* the positions after its mark and before the next mark
StagePos(l) == {i \in DOMAIN l : l[i].e = "stage"}
NthStage(l, k) ==
    CHOOSE i \in StagePos(l) : Cardinality({j \in StagePos(l) : j <= i}) = k
Window(l, k) ==
    {i \in DOMAIN l :
        /\ i > NthStage(l, k)
        /\ \A j \in StagePos(l) : j > NthStage(l, k) => i < j}

StageNames == <<"root", "setup", "test">>

\* in window k the stage's Command was run exactly once, returned, and was
\* validated after that without a failure
StageCompleted(l, k) ==
    LET id == l[NthStage(l, k)].id
        W == Window(l, k)
        R == {i \in W : l[i].e = "run" /\ Depth(l, i) = 0}
        V == {i \in W : l[i].e = "validate" /\ l[i].id = id}
    IN /\ l[NthStage(l, k)].x = StageMark(StageNames[k])
       /\ Cardinality(R) = 1
       /\ Cardinality(V) = 1
       /\ \A i \in R, v \in V :
            /\ l[i].id = id
            /\ l[ExitOf(l, i)].e = "return"
            /\ ExitOf(l, i) < v
       /\ \A i \in W : l[i].e \notin {"raise", "fail"}

\* every _invoke of window k, that of a composite and those of its children,
\* started in directory dir
StageInvokedIn(l, k, dir) ==
    \A i \in Window(l, k) : l[i].e = "invoke" => l[i].dir = dir

(***************************************************************************)
(* C3: a successful Test.run runs the root-setup, the local-setup and the  *)
(* test Command exactly once each, in that order, each validated before    *)
(* the next is run; the root-setup runs with working directory repo_root,  *)
(* the local-setup and the test Command with working directory             *)
(* working_directory: the Command that is run has that working_directory   *)
(* and every _invoke of the stage starts there.                            *)
(***************************************************************************)
C3_TestRunsStagesInOrder ==
    (last.op = "Test.run" /\ last.exc = NoExc) =>
        /\ Cardinality(StagePos(log)) = 3
        /\ \A k \in 1..3 : StageCompleted(log, k)
        /\ Cardinality({i \in DOMAIN log : log[i].e = "run" /\ Depth(log, i) = 0}) = 3
        /\ StageInvokedIn(log, 1, OrCwd(last.repo_root, cwd))
        /\ StageInvokedIn(log, 2, last.working_directory)
        /\ StageInvokedIn(log, 3, last.working_directory)
        /\ \A k \in 1..3 :
            heap[log[NthStage(log, k)].id].working_directory =
                IF k = 1 THEN OrCwd(last.repo_root, cwd)
                ELSE last.working_directory

(***************************************************************************)
(* C5: in Test.run a failure (a Command's run() raising, or a validation   *)
(* failing) raises out of Test.run and nothing of a later stage happens:   *)
(* the failure is the last thing the run did, and every stage before the   *)
(* failing one was run and validated successfully.  When the failure is a  *)
(* Validator attached to the test Command, both setup Commands have been   *)
(* run and validated before, and the exception names that Validator.       *)
(***************************************************************************)
FailurePos(l) == {i \in DOMAIN l : l[i].e \in {"raise", "fail"}}

C5_StageFailureStopsTest ==
    last.op = "Test.run" =>
        /\ (FailurePos(log) # {}) <=> (last.exc # NoExc)
        /\ last.exc # NoExc =>
            LET f == CHOOSE i \in FailurePos(log) : \A j \in FailurePos(log) : i <= j
                n == Cardinality(StagePos(log))
            IN /\ \A i \in (f + 1)..Len(log) : log[i].e = "raise"
               /\ n \in 1..3
               /\ f \in Window(log, n)
               /\ \A k \in 1..(n - 1) : StageCompleted(log, k)
               /\ last.result = NoResult
               /\ last.exc.type = "ValidationException" =>
                    /\ log[f].e = "fail"
                    /\ log[f].x = last.exc.payload
                    /\ \E c \in DOMAIN heap[log[f].id].validation_checks :
                          heap[log[f].id].validation_checks[c] = last.exc.payload
                    /\ log[f].id \in Reach(heap, log[NthStage(log, n)].id)

\* the second check of the test Command failed after both setup Commands,
\* processes with checks of their own, passed
C5_Witness ==
    /\ last.op = "Test.run"
    /\ last.exc = ValidationException(ExcAB)
    /\ Cardinality(StagePos(log)) = 3
    /\ heap[drv.test.repo_root_setup_command].kind = "Process"
    /\ heap[drv.test.setup_command].kind = "Process"
    /\ heap[drv.test.repo_root_setup_command].validation_checks # <<>>
    /\ heap[drv.test.test_command].validation_checks = <<IncA, ExcAB>>

(***************************************************************************)
(* C10: Test.run leaves the Test's configured Commands as they were        *)
(* constructed (working_directory, children, captured output), whatever    *)
(* their variants, and the Commands that the TestResults of different runs *)
(* refer to are different objects.                                         *)
(***************************************************************************)
Configured(t) ==
    {t.repo_root_setup_command, t.setup_command, t.test_command}

C10_RunsShareNoState ==
    last.op = "Test.run" =>
        /\ \A c \in Configured(drv.test) :
            \A id \in Reach(drv.heap0, c) : heap[id] = drv.heap0[id]
        /\ \A i \in DOMAIN drv.results, j \in DOMAIN drv.results :
            i # j => drv.results[i].command # drv.results[j].command
        /\ \A i \in DOMAIN drv.results :
            drv.results[i].command \notin Configured(drv.test)

(***************************************************************************)
(* C2: after TestSuite.run returns or raises, the process environment is   *)
(* what it was immediately before the call, whatever the overrides and     *)
(* whatever was added, changed or removed while the suite ran.  What the   *)
(* program changes while the suite runs are the overridden keys.           *)
(***************************************************************************)
C2_SuiteRestoresEnvironment ==
    last.op = "TestSuite.run" => env = last.env0

\* the suite raised in its second Test after an override of a variable that
\* was absent and of one that was set: both Tests saw the overrides, and
\* afterwards the first variable is absent again and the second has its
\* old value
C2_Witness ==
    /\ last.op = "TestSuite.run"
    /\ last.exc # NoExc
    /\ drv.suite.environment_variables["foo"] = "bar"
    /\ drv.suite.environment_variables["PATH"] = "bar"
    /\ last.env0["foo"] = Absent
    /\ last.env0["PATH"] = "bin"
    /\ env["foo"] = Absent
    /\ env["PATH"] = "bin"
    /\ \E i \in DOMAIN log, j \in DOMAIN log :
        /\ i < j
        /\ log[i].e = "invoke" /\ log[i].env["foo"] = "bar" /\ log[i].env["PATH"] = "bar"
        /\ log[i + 1].e = "return"
        /\ log[j].e = "invoke" /\ log[j].env["foo"] = "bar" /\ log[j].env["PATH"] = "bar"
        /\ heap[log[j].id].kind = "Process"
        /\ j < Len(log)
        /\ log[j + 1].e = "raise"

(***************************************************************************)
(* C6: for repetitions >= 1, every TestResult of the TestSuiteResult that  *)
(* test_suite_repeater returns has as elapsed time the sum of the times    *)
(* observed for its Test name over all repetitions, divided by             *)
(* repetitions: the quotient to the nearest microsecond (a half goes to    *)
(* the even one), whatever was observed for the other names.               *)
(***************************************************************************)
RECURSIVE ObservedSum(_, _)
\* the sum of the times the runner reported for name
ObservedSum(observed, name) ==
    IF observed = <<>>
    THEN 0
    ELSE LET trs == Head(observed).test_results
             here == {i \in DOMAIN trs : trs[i].name = name}
             RECURSIVE Tot(_)
             Tot(S) == IF S = {} THEN 0
                       ELSE LET i == CHOOSE i \in S : TRUE
                            IN trs[i].time_delta + Tot(S \ {i})
         IN Tot(here) + ObservedSum(Tail(observed), name)

RepReturned == last.op = "test_suite_repeater" /\ last.exc = NoExc

C6_RepeaterAverages ==
    (RepReturned /\ drv.rep.repetitions >= 1) =>
        \A i \in DOMAIN last.result.test_results :
            LET t == last.result.test_results[i]
                n == drv.rep.repetitions
                total == ObservedSum(drv.observed, t.name)
                d == n * t.time_delta - total
            IN /\ 2 * d <= n
               /\ 2 * d >= 0 - n
               /\ (2 * d = n \/ 2 * d = 0 - n) => t.time_delta % 2 = 0

\* 1, 2 and 6 over three repetitions give 3, next to another Test whose
\* 1, 2 and 2 give 2
C6_Witness ==
    /\ RepReturned
    /\ drv.rep.repetitions = 3
    /\ \A i \in 1..3 : Len(drv.observed[i].test_results) = 2
    /\ [i \in 1..3 |-> drv.observed[i].test_results[1].time_delta] = <<1, 2, 6>>
    /\ Len(last.result.test_results) = 2
    /\ last.result.test_results[1] = TestResult("a", 3, NoCommand)
    /\ last.result.test_results[2] = TestResult("b", 2, NoCommand)

(***************************************************************************)
(* C8: test_suite_repeater returns a merged result only if every Test name *)
(* that appears in some repetition appears in every repetition.            *)
(***************************************************************************)
NamesOf(test_suite_result) ==
    {test_suite_result.test_results[i].name : i \in DOMAIN test_suite_result.test_results}

C8_MergedOnlyIfNamesEverywhere ==
    RepReturned =>
        \A i \in DOMAIN drv.observed, j \in DOMAIN drv.observed :
            NamesOf(drv.observed[i]) = NamesOf(drv.observed[j])

(***************************************************************************)
(* C4: once a Command invocation or a Validator has failed inside          *)
(* run_tests, no Command is invoked and no Validator is evaluated any      *)
(* more, whatever Tests, repetitions, suites, sub-directories and          *)
(* repositories remain, and run_tests raises without a result.             *)
(***************************************************************************)
Failure(i) == log[i].e \in {"raise", "fail"}

Activity(i) ==
    log[i].e \in {"suite", "stage", "run", "invoke", "return", "validate", "check",
                  "timer_start", "timer_stop"}

RunRaised == drv.pc = "done" /\ last.op = "run_tests" /\ last.exc # NoExc

C4_FailureAbortsRunTests ==
    \A i \in DOMAIN log :
        Failure(i) =>
            /\ \A j \in DOMAIN log : j > i => ~Activity(j)
            /\ RunRaised
            /\ last.result = <<>>

\* a Validator failed in the first repetition of the second suite in the
\* first of two sub-directories, after the first suite had been repeated
C4_Witness ==
    /\ RunRaised
    /\ last.exc.type = "ValidationException"
    /\ Len(drv.pairs) = 2 /\ drv.k = 1
    /\ Len(drv.test_suites) = 2 /\ drv.u = 2
    /\ drv.repetitions = 2 /\ drv.rep.repetition = 0
    /\ Len(drv.test_suites[2].tests) = 2
    /\ \E i \in DOMAIN log : log[i].e = "fail"
    /\ Len(SelectSeq(log, LAMBDA ev : ev.e = "stage" /\ ev.x.s = <<"test">>)) = 3

(***************************************************************************)
(* C7: a run_tests that returns, returns one RepoResults per (repo,        *)
(* sub-directory) pair, in the order repo then sub-directory, named        *)
(* <repo>/<subdir>; each holds one TestSuiteResult per suite in the order  *)
(* of the suites, and each of these one TestResult per Test of the suite   *)
(* in the order of its Tests, whatever the number of repetitions.          *)
(***************************************************************************)
RECURSIVE ExpectedNames(_)
ExpectedNames(repos) ==
    IF repos = <<>>
    THEN <<>>
    ELSE [i \in DOMAIN Head(repos).sub_directories |->
            Head(repos).name \o "/" \o Head(repos).sub_directories[i]]
         \o ExpectedNames(Tail(repos))

RunReturned == drv.pc = "done" /\ last.op = "run_tests" /\ last.exc = NoExc

C7_RunTestsResultShape ==
    RunReturned =>
        LET names == ExpectedNames(drv.repos)
            suites == drv.test_suites
        IN /\ Len(last.result) = Len(names)
           /\ \A k \in DOMAIN names :
                LET entry == last.result[k]
                IN /\ entry.name = names[k]
                   /\ Len(entry.test_suite_results) = Len(suites)
                   /\ \A u \in DOMAIN suites :
                        LET tsr == entry.test_suite_results[u]
                        IN /\ tsr.name = suites[u].name
                           /\ Len(tsr.test_results) = Len(suites[u].tests)
                           /\ \A t \in DOMAIN suites[u].tests :
                                tsr.test_results[t].name = suites[u].tests[t].name

\* two repos of one sub-directory each, two suites (of one and of two
\* Tests), two repetitions
C7_Witness ==
    /\ RunReturned
    /\ Len(drv.repos) = 2
    /\ Len(last.result) = 2
    /\ last.result[1].name = "r1/s1" /\ last.result[2].name = "r2/s1"
    /\ drv.repetitions = 2
    /\ Len(drv.test_suites) = 2
    /\ Len(drv.test_suites[1].tests) = 1 /\ Len(drv.test_suites[2].tests) = 2

(***************************************************************************)
(* C11: when a child of a Composite raises during its invocation, no child *)
(* after it is invoked, the children before it have each been invoked      *)
(* exactly once, in order, and the child's error leaves the Composite's    *)
(* run().                                                                  *)
(***************************************************************************)
\* the positions where the run() of a direct child starts, and the k-th
ChildRuns(l) == {i \in DOMAIN l : l[i].e = "run" /\ Depth(l, i) = 1}
NthChildRun(l, k) ==
    CHOOSE i \in ChildRuns(l) : Cardinality({j \in ChildRuns(l) : j <= i}) = k

C11_ChildFailureStopsComposite ==
    (last.op = "run" /\ heap[last.id].kind = "Composite") =>
        LET children == heap[last.id].commands
            n == Cardinality(ChildRuns(log))
            exit(k) == log[ExitOf(log, NthChildRun(log, k))]
        IN /\ n <= Len(children)
           /\ \A k \in 1..n :
                /\ log[NthChildRun(log, k)].id = children[k]
                /\ HasExit(log, NthChildRun(log, k))
                /\ k < n => exit(k).e = "return"
           /\ n < Len(children) => (n > 0 /\ exit(n).e = "raise")
           /\ (n > 0 /\ exit(n).e = "raise") =>
                /\ last.exc # NoExc
                /\ RaiseMark(last.exc) = exit(n).x
                /\ log[Len(log)].e = "raise" /\ log[Len(log)].id = last.id
           /\ (n > 0 /\ exit(n).e = "return") => last.exc = NoExc

\* a Composite of three whose second child raised
C11_Witness ==
    /\ last.op = "run"
    /\ heap[last.id].kind = "Composite"
    /\ Len(heap[last.id].commands) = 3
    /\ Cardinality(ChildRuns(log)) = 2
    /\ log[ExitOf(log, NthChildRun(log, 1))].e = "return"
    /\ last.exc.type = "CalledProcessError"
    /\ heap[heap[last.id].commands[3]].captured_output = NoOutput

(***************************************************************************)
(* C12: invoking a Composite runs each child fully, its validation         *)
(* included, before the next child is invoked: when the Validators of      *)
(* child i fail, no child after i has been invoked.                        *)
(***************************************************************************)
C12_ChildValidatedBeforeNext ==
    (last.op = "validate" /\ heap[last.id].kind = "Composite"
        /\ last.exc.type = "ValidationException") =>
        LET children == heap[last.id].commands
            failed == {log[i].id : i \in {j \in DOMAIN log : log[j].e = "fail"}}
        IN \A i \in DOMAIN children, j \in DOMAIN children :
            (children[i] \in failed /\ j > i /\ children[j] # children[i]) =>
                heap[children[j]].captured_output = NoOutput

(***************************************************************************)
(* C13: add_validation_checks appends the new checks after the ones the    *)
(* Command has, and validate() of a Command that was run evaluates the     *)
(* checks in that order, raises a ValidationException naming the first     *)
(* that fails, evaluates none after it, and raises nothing when all pass.  *)
(***************************************************************************)
\* the Validators a validate() evaluated, in order
Evaluated(l) == [i \in DOMAIN EventsOf(l, {"check"}) |-> EventsOf(l, {"check"})[i].x]

OutputText(out) == IF out.t = "str" THEN out.v ELSE Decode(out.v)

C13_ValidatedLeaf ==
    /\ last.op = "validate"
    /\ heap[last.id].kind # "Composite"
    /\ heap[last.id].captured_output # NoOutput
    /\ heap[last.id].captured_output.t = "bytes" =>
          Decodable(heap[last.id].captured_output.v)

C13_ValidateInOrder ==
    C13_ValidatedLeaf =>
        LET checks == heap[last.id].validation_checks
            text == OutputText(heap[last.id].captured_output)
            done == Evaluated(log)
            n == Len(done)
            failing == {i \in DOMAIN checks : ~ValidatorValidate(checks[i], text)}
        IN /\ n <= Len(checks)
           /\ done = SubSeq(checks, 1, n)
           /\ failing = {} => (last.exc = NoExc /\ n = Len(checks))
           /\ failing # {} =>
                /\ last.exc = ValidationException(checks[n])
                /\ n \in failing
                /\ \A i \in failing : n <= i

C13_ChecksAppendAndFailFast ==
    /\ [](C13_ValidateInOrder)
    /\ [][(C9_CloneStep /\ last'.op = "add_validation_checks") =>
            heap'[last'.ret].validation_checks =
                heap[last'.id].validation_checks \o last'.checks]_vars

\* checks were added to a Command, the result was run and validated: the
\* check it had passed, the added one failed and is the one named
C13_Witness ==
    /\ C13_ValidatedLeaf
    /\ last.id \notin DOMAIN drv.heap0
    /\ heap[last.id].validation_checks = <<IncA, ExcAB>>
    /\ Evaluated(log) = <<IncA, ExcAB>>
    /\ last.exc = ValidationException(ExcAB)

(***************************************************************************)
(* C14: an error raised by the invocation of a Command or by validation    *)
(* reaches the caller of run_tests, through Test.run, TestSuite.run and    *)
(* test_suite_repeater, as the same error, of the same type and with the   *)
(* same payload, whether the suite has environment overrides or not.       *)
(***************************************************************************)
FirstFailure(l) == CHOOSE i \in FailurePos(l) : \A j \in FailurePos(l) : i <= j

C14_ErrorReachesCallerUnchanged ==
    FailurePos(log) # {} =>
        LET origin == log[FirstFailure(log)]
        IN /\ RunRaised
           /\ origin.e = "raise" => RaiseMark(last.exc) = origin.x
           /\ (origin.e = "fail" /\ origin.x # NoPayload) =>
                 last.exc = ValidationException(origin.x)
           /\ (origin.e = "fail" /\ origin.x = NoPayload) =>
                 last.exc \in {AssertionError, UnicodeDecodeError}

\* a Validator failed in a suite that has overrides, after a suite that has
\* none had been run
C14_Witness ==
    /\ RunRaised
    /\ last.exc = ValidationException(IncA)
    /\ log[FirstFailure(log)].e = "fail"
    /\ drv.u = 2
    /\ ~drv.test_suites[2].default_env
    /\ drv.test_suites[2].environment_variables["foo"] = "bar"
    /\ drv.test_suites[1].default_env

(***************************************************************************)
(* C15: for repetitions >= 1 and a runner that does not fail and reports   *)
(* one suite name, test_suite_repeater calls the runner exactly            *)
(* repetitions times, one call after the other; within run_tests every     *)
(* (sub-directory, suite) pair is run exactly repetitions times, and all   *)
(* repetitions of a suite are over before the next suite starts.           *)
(***************************************************************************)
RunnerRaised == last.op = "test_suite_repeater" /\ last.exc = RunnerExc

OneSuiteName(observed) ==
    \A i \in DOMAIN observed, j \in DOMAIN observed : observed[i].name = observed[j].name

\* the TestSuite.run calls of the log, in order: suite name and directory
SuiteRuns(l) ==
    [i \in DOMAIN EventsOf(l, {"suite"}) |->
        <<EventsOf(l, {"suite"})[i].x.s[1], EventsOf(l, {"suite"})[i].dir>>]

RECURSIVE Repeat(_, _), ExpectedSuiteRuns(_, _, _)
\* n times x
Repeat(x, n) == IF n = 0 THEN <<>> ELSE <<x>> \o Repeat(x, n - 1)

RECURSIVE SuitesIn(_, _, _)
SuitesIn(suites, dir, n) ==
    IF suites = <<>> THEN <<>>
    ELSE Repeat(<<Head(suites).name, dir>>, n) \o SuitesIn(Tail(suites), dir, n)

\* for every sub-directory in order, for every suite in order, n runs
ExpectedSuiteRuns(pairs, suites, n) ==
    IF pairs = <<>> THEN <<>>
    ELSE SuitesIn(suites, Head(pairs).repo_subdir, n)
         \o ExpectedSuiteRuns(Tail(pairs), suites, n)

IsPrefix(a, b) == Len(a) <= Len(b) /\ a = SubSeq(b, 1, Len(a))

C15_RunTestsRepeatsInOrder ==
    CallerIsRunTests =>
        LET expected == ExpectedSuiteRuns(drv.pairs, drv.test_suites, drv.repetitions)
        IN /\ IsPrefix(SuiteRuns(log), expected)
           /\ RunReturned => SuiteRuns(log) = expected
           /\ \A i \in DOMAIN log : log[i].e = "suite" => Depth(log, i) = 0

C15_RunnerCalledRepetitionsTimes ==
    /\ (CallerIsRep /\ drv.pc # "idle") =>
          /\ Len(drv.observed) <= drv.rep.repetitions
          /\ (drv.pc = "done" /\ drv.rep.repetitions >= 1 /\ ~RunnerRaised
                /\ OneSuiteName(drv.observed)) =>
                 Len(drv.observed) = drv.rep.repetitions
    /\ C15_RunTestsRepeatsInOrder

\* the claim without the condition on the suite name
C15_Original ==
    /\ (CallerIsRep /\ drv.pc = "done" /\ drv.rep.repetitions >= 1 /\ ~RunnerRaised) =>
          Len(drv.observed) = drv.rep.repetitions
    /\ C15_RunTestsRepeatsInOrder

\* run_tests returned after two repetitions of two suites in each of two
\* sub-directories
C15_Witness ==
    /\ CallerIsRunTests
    /\ RunReturned
    /\ drv.repetitions = 2
    /\ Len(drv.pairs) = 2
    /\ Len(drv.test_suites) = 2
    /\ Len(SuiteRuns(log)) = 8

(***************************************************************************)
(* C16: when the preconditions of run_tests hold (repos_root is an         *)
(* existing directory, repos and suites are non-empty, the root of every   *)
(* repo exists) and no Command or Validator fails, the assertion after the *)
(* loops, that the result list is non-empty, never fires.                  *)
(***************************************************************************)
RunPreconditions ==
    /\ drv.repos_root \in {"/root", "rel"}
    /\ Len(drv.repos) > 0
    /\ Len(drv.test_suites) > 0
    /\ \A i \in DOMAIN drv.repos : drv.repos[i].name \in {"r1", "r2"}

RunDone == CallerIsRunTests /\ drv.pc = "done" /\ last.op = "run_tests"

\* the assertion after the loops failed: the loops were over and nothing
\* had been collected
FinalAssertionFired ==
    /\ RunDone
    /\ last.exc = AssertionError
    /\ drv.k > Len(drv.pairs)
    /\ drv.repo_results = <<>>

C16_ResultNonEmpty ==
    (RunDone /\ RunPreconditions /\ FailurePos(log) = {}) => ~FinalAssertionFired

(***************************************************************************)
(* C17: validate() of a Command on which run() has not returned normally   *)
(* fails with the "must be run before it can be validated" assertion.      *)
(* drv.ran are the objects on which run() has returned normally, called by *)
(* the caller or by a composite.                                           *)
(***************************************************************************)
C17_ValidateRequiresRun ==
    (last.op = "validate" /\ last.id \notin drv.ran) => last.exc = AssertionError

(***************************************************************************)
(* C18: during TestSuite.run, at the start of every Command invocation of  *)
(* every Test of the suite (the setup Commands and the children of a       *)
(* composite included), the environment is the one found at entry with the *)
(* overrides merged in: an overridden key has its override value, any      *)
(* other key the value it had at entry.                                    *)
(***************************************************************************)
\* the overrides of the suite that was run (without a mapping of its own
\* the suite passes the environment it finds)
SuiteOverrides == SuiteKwargs(drv.suite, last.env0)

MergedAtEntry(e) ==
    \A k \in EnvKeys :
        e[k] = IF SuiteOverrides[k] # Absent THEN SuiteOverrides[k] ELSE last.env0[k]

C18_InvocationsSeeMergedEnvironment ==
    last.op = "TestSuite.run" =>
        \A i \in DOMAIN log : log[i].e = "invoke" => MergedAtEntry(log[i].env)

\* a suite of two Tests overrode a variable that was set and left another
\* one alone; the process of the second Test started with both
C18_Witness ==
    /\ last.op = "TestSuite.run"
    /\ last.exc = NoExc
    /\ last.env0["foo"] = "bin"
    /\ drv.suite.environment_variables["foo"] = "bar"
    /\ drv.suite.environment_variables["PATH"] = Absent
    /\ Len(drv.suite.tests) = 2
    /\ \E h \in DOMAIN log, i \in DOMAIN log :
        /\ h < i
        /\ log[h].e = "invoke" /\ heap[log[h].id].kind = "Process"
        /\ log[i].e = "invoke" /\ heap[log[i].id].kind = "Process"
        /\ log[i].env["foo"] = "bar"
        /\ log[i].env["PATH"] = "bin"

(***************************************************************************)
(* C19: Test.run returns a TestResult only if the three stages ran and     *)
(* were validated without a failure; the TestResult carries the name of    *)
(* the Test and the Command that was timed and validated, the              *)
(* working_directory of that Command is the working_directory of the run   *)
(* and its captured output is the output of that run.                      *)
(***************************************************************************)
\* the Command that was run between timer_start and timer_stop
Timed(l) == {l[i].id : i \in {j \in DOMAIN l : l[j].e = "timer_stop"}}

\* what _invoke of the Command returns in the state the run left
OutputOf(id) == Invoke(World(heap, cwd, env, <<>>), id).out

C19_ResultCarriesValidatedCommand ==
    (last.op = "Test.run" /\ last.exc = NoExc) =>
        /\ FailurePos(log) = {}
        /\ \A k \in 1..3 : StageCompleted(log, k)
        /\ last.result.name = drv.test.name
        /\ Timed(log) = {last.result.command}
        /\ log[NthStage(log, 3)].id = last.result.command
        /\ \E i \in Window(log, 3) :
              log[i].e = "validate" /\ log[i].id = last.result.command
        /\ heap[last.result.command].working_directory =
              OrCwd(last.working_directory, cwd)
        /\ heap[last.result.command].captured_output # NoOutput
        /\ heap[last.result.command].captured_output = OutputOf(last.result.command)

(***************************************************************************)
(* write_results_to_csv.  Names and the text written are sequences of      *)
(* characters; a time is a whole number of microseconds.  The files on     *)
(* disk are a function from paths to their text.                           *)
(***************************************************************************)
IndexError == Exc("IndexError", NoPayload)
IsADirectoryError == Exc("IsADirectoryError", NoPayload)

DigitChars == <<"0", "1", "2", "3", "4", "5", "6", "7", "8", "9">>

RECURSIVE IntText(_), Padded(_, _), StripZeros(_)
\* str(n) of an int n >= 0
IntText(n) ==
    IF n < 10
    THEN <<DigitChars[n + 1]>>
    ELSE IntText(n \div 10) \o <<DigitChars[(n % 10) + 1]>>

\* the last width digits of n
Padded(n, width) ==
    IF width = 0
    THEN <<>>
    ELSE Padded(n \div 10, width - 1) \o <<DigitChars[(n % 10) + 1]>>

StripZeros(t) ==
    IF t # <<>> /\ t[Len(t)] = "0" THEN StripZeros(SubSeq(t, 1, Len(t) - 1)) ELSE t

MicrosPerSecond == 1000000
\* repr of a float switches to the exponent form below 1e-04
SmallestPlain == 100

\* a text of whole seconds, the microseconds dropped
WholeSecondsText(us) == IntText(us \div MicrosPerSecond) \o <<".", "0">>

\* str(time_delta.total_seconds()): the shortest decimal text of the float
\* us / 10**6, for a time of us microseconds
FloatText(us) ==
    IF us = 0
    THEN <<"0", ".", "0">>
    ELSE IF us >= SmallestPlain
    THEN LET frac == StripZeros(Padded(us % MicrosPerSecond, 6))
         IN IntText(us \div MicrosPerSecond) \o <<".">>
                \o (IF frac = <<>> THEN <<"0">> ELSE frac)
    ELSE IF us >= 10
    THEN <<DigitChars[(us \div 10) + 1]>>
            \o (IF us % 10 = 0 THEN <<>> ELSE <<".", DigitChars[(us % 10) + 1]>>)
            \o <<"e", "-", "0", "5">>
    ELSE <<DigitChars[us + 1], "e", "-", "0", "6">>

RECURSIVE HeaderTests(_, _), HeaderSuites(_), RowTests(_), RowSuites(_), Rows(_)

\* f"{test_suite_result.name}_{test_result.name}" for test_result in ...
HeaderTests(suite_name, test_results) ==
    IF test_results = <<>>
    THEN <<>>
    ELSE <<suite_name \o <<"_">> \o Head(test_results).name>>
            \o HeaderTests(suite_name, Tail(test_results))

HeaderSuites(test_suite_results) ==
    IF test_suite_results = <<>>
    THEN <<>>
    ELSE HeaderTests(Head(test_suite_results).name, Head(test_suite_results).test_results)
            \o HeaderSuites(Tail(test_suite_results))

\* header = ["repo"] + [... for ... in repo_results[0].test_suite_results ...]
Header(repo_results) ==
    <<<<"r", "e", "p", "o">>>> \o HeaderSuites(repo_results[1].test_suite_results)

RowTests(test_results) ==
    IF test_results = <<>>
    THEN <<>>
    ELSE <<FloatText(Head(test_results).time_delta)>> \o RowTests(Tail(test_results))

RowSuites(test_suite_results) ==
    IF test_suite_results = <<>>
    THEN <<>>
    ELSE RowTests(Head(test_suite_results).test_results)
            \o RowSuites(Tail(test_suite_results))

\* rows = [[repo_result.name] + [...] for repo_result in repo_results]
Rows(repo_results) ==
    IF repo_results = <<>>
    THEN <<>>
    ELSE <<(<<Head(repo_results).name>>
               \o RowSuites(Head(repo_results).test_suite_results))>>
            \o Rows(Tail(repo_results))

\* csv.writer, the excel dialect: QUOTE_MINIMAL, doubled quotes, "\r\n"
CsvSpecial == {",", "\"", "\r", "\n"}

RECURSIVE CsvDoubled(_), CsvJoin(_, _), Writerows(_)
CsvDoubled(field) ==
    IF field = <<>>
    THEN <<>>
    ELSE (IF Head(field) = "\"" THEN <<"\"", "\"">> ELSE <<Head(field)>>)
            \o CsvDoubled(Tail(field))

\* a field is quoted when it holds a special character, and when it is the
\* empty only field of its row
CsvNeedsQuotes(field, alone) ==
    \/ \E i \in DOMAIN field : field[i] \in CsvSpecial
    \/ alone /\ field = <<>>

CsvField(field, alone) ==
    IF CsvNeedsQuotes(field, alone)
    THEN <<"\"">> \o CsvDoubled(field) \o <<"\"">>
    ELSE field

CsvJoin(row, alone) ==
    IF Len(row) = 1
    THEN CsvField(row[1], alone)
    ELSE CsvField(Head(row), alone) \o <<",">> \o CsvJoin(Tail(row), alone)

\* writer.writerow(row): the text written
Writerow(row) == CsvJoin(row, Len(row) = 1) \o <<"\r", "\n">>

Writerows(rows) ==
    IF rows = <<>> THEN <<>> ELSE Writerow(Head(rows)) \o Writerows(Tail(rows))

ResultsFile(dir, name) == [dir |-> dir, name |-> name]
ResultsFilePath(results_file) == JoinPath(results_file.dir, results_file.name)

\* write_results_to_csv(repo_results, results_file): the files afterwards
WriteResultsToCsv(files, repo_results, results_file) ==
    IF repo_results = <<>>
    THEN \* repo_results[0]
         [files |-> files, exc |-> IndexError]
    ELSE Let(Header(repo_results), LAMBDA header :
         Let(Rows(repo_results), LAMBDA rows :
         Let(ResultsFilePath(results_file), LAMBDA results_file_path :
             \* open(results_file_path, 'w', newline="")
             IF results_file.dir \notin ExistingDirs
             THEN [files |-> files, exc |-> FileNotFoundError]
             ELSE IF results_file_path \in ExistingDirs
             THEN [files |-> files, exc |-> IsADirectoryError]
             ELSE Let(Writerow(header) \o Writerows(rows), LAMBDA text :
                      [files |-> [p \in DOMAIN files \cup {results_file_path} |->
                                     IF p = results_file_path THEN text ELSE files[p]],
                       exc |-> NoExc]))))

(***************************************************************************)
(* SpecCsv: a caller writes a list of up to MaxRows RepoResults to a       *)
(* results file, new or existing, in a directory that exists or not.       *)
(***************************************************************************)
MaxRows == 2

CsvTestResult(name, us) == TestResult(name, us, NoCommand)

CsvSuiteResults ==
    LET s1 == TestSuiteResult(<<"s">>, <<CsvTestResult(<<"t">>, 1500000),
                                        CsvTestResult(<<"n", "\n">>, 15)>>)
        s2 == TestSuiteResult(<<"q", "\"">>, <<CsvTestResult(<<"t">>, 0),
                                              CsvTestResult(<<>>, 120)>>)
        s3 == TestSuiteResult(<<"s">>, <<CsvTestResult(<<"a", ",", "b">>, 2000001),
                                        CsvTestResult(<<"t">>, 5),
                                        CsvTestResult(<<"t">>, 61000000)>>)
        s4 == TestSuiteResult(<<>>, <<>>)
    IN {<<>>, <<s1>>, <<s2, s1>>, <<s1, s2>>, <<s4, s3>>, <<s3>>}

CsvRepoNames == {<<"r", "1", "/", "s", "1">>, <<"a", ",", "b">>, <<>>}

CsvRepoResults ==
    {RepoResults(name, suites) : name \in CsvRepoNames, suites \in CsvSuiteResults}

CsvInputs == UNION {[1..n -> CsvRepoResults] : n \in 0..MaxRows}

ResultsFiles ==
    {ResultsFile("d0", "out.csv"), ResultsFile("d0", "old.csv"),
     ResultsFile("gone", "out.csv"), ResultsFile("d0", "rel")}

OldText == <<"o", "l", "d", "\r", "\n">>

CsvOp(repo_results, results_file, exc) ==
    [op |-> "write_results_to_csv", repo_results |-> repo_results,
     results_file |-> results_file, exc |-> exc]

InitCsv ==
    /\ heap = <<>>
    /\ cwd = ConstructionDir
    /\ env = InitialEnv
    /\ log = <<>>
    /\ last = NoOp
    /\ drv = [pc |-> "idle", files |-> [p \in {"d0/old.csv"} |-> OldText]]

WriteResultsToCsvCall ==
    /\ drv.pc = "idle"
    /\ \E repo_results \in CsvInputs, results_file \in ResultsFiles :
        \E r \in {WriteResultsToCsv(drv.files, repo_results, results_file)} :
           /\ last' = CsvOp(repo_results, results_file, r.exc)
           /\ drv' = [pc |-> "done", files |-> r.files]
    /\ UNCHANGED <<heap, cwd, env, log>>

NextCsv == WriteResultsToCsvCall

SpecCsv == InitCsv /\ [][NextCsv]_vars

(***************************************************************************)
(* C20: for a non-empty list of RepoResults and a results file that can be *)
(* opened, write_results_to_csv writes a CSV text that reads back as: a    *)
(* header row "repo" followed by <suite>_<test> for every suite and test   *)
(* of the first entry in order, then one row per entry in list order, the  *)
(* entry's name followed by the seconds of its TestResults, suite by suite *)
(* in order.                                                               *)
(***************************************************************************)
\* position i of text is outside a quoted field
Outside(text, i) == Cardinality({j \in 1..(i - 1) : text[j] = "\""}) % 2 = 0

\* the k-th smallest member of a set of positions
Nth(marks, k) == CHOOSE i \in marks : Cardinality({j \in marks : j <= i}) = k

\* the k-th piece of text, cut at marks that are width characters wide
Piece(text, marks, width, k) ==
    SubSeq(text,
           IF k = 1 THEN 1 ELSE Nth(marks, k - 1) + width,
           IF k > Cardinality(marks) THEN Len(text) ELSE Nth(marks, k) - 1)

RECURSIVE Undoubled(_)
Undoubled(field) ==
    IF field = <<>>
    THEN <<>>
    ELSE IF Len(field) >= 2 /\ field[1] = "\"" /\ field[2] = "\""
    THEN <<"\"">> \o Undoubled(SubSeq(field, 3, Len(field)))
    ELSE <<Head(field)>> \o Undoubled(Tail(field))

Unquoted(raw) ==
    IF raw # <<>> /\ raw[1] = "\""
    THEN Undoubled(SubSeq(raw, 2, Len(raw) - 1))
    ELSE raw

\* the fields of one line: cut at the commas outside quotes
CsvFields(line) ==
    Let({i \in DOMAIN line : line[i] = "," /\ Outside(line, i)}, LAMBDA commas :
        [k \in 1..(Cardinality(commas) + 1) |-> Unquoted(Piece(line, commas, 1, k))])

\* the rows a CSV reader finds in text: cut at the line ends outside quotes;
\* what follows the last line end is one more row
CsvRead(text) ==
    Let({i \in 1..(Len(text) - 1) :
            text[i] = "\r" /\ text[i + 1] = "\n" /\ Outside(text, i)}, LAMBDA ends :
    Let(IF ends # {} /\ Nth(ends, Cardinality(ends)) = Len(text) - 1
        THEN Cardinality(ends) ELSE Cardinality(ends) + 1, LAMBDA n :
        [k \in 1..n |-> CsvFields(Piece(text, ends, 2, k))]))

DigitOf(c) ==
    CASE c = "0" -> 0 [] c = "1" -> 1 [] c = "2" -> 2 [] c = "3" -> 3 [] c = "4" -> 4
      [] c = "5" -> 5 [] c = "6" -> 6 [] c = "7" -> 7 [] c = "8" -> 8 [] c = "9" -> 9
      [] OTHER -> -1

RECURSIVE NumberOf(_), Pow10(_)
NumberOf(digits) ==
    IF digits = <<>>
    THEN 0
    ELSE 10 * NumberOf(SubSeq(digits, 1, Len(digits) - 1)) + DigitOf(digits[Len(digits)])

Pow10(n) == IF n = 0 THEN 1 ELSE 10 * Pow10(n - 1)

\* the position of character c in text, Len(text) + 1 when it is not there
Find(text, c) ==
    IF \E i \in DOMAIN text : text[i] = c
    THEN CHOOSE i \in DOMAIN text : text[i] = c /\ \A j \in 1..(i - 1) : text[j] # c
    ELSE Len(text) + 1

\* the microseconds of a decimal text of seconds (digits, a point, digits,
\* and possibly e- and digits); -1 when the text is none or is no whole
\* number of microseconds
MicrosOf(text) ==
    LET e == Find(text, "e")
        mantissa == SubSeq(text, 1, e - 1)
        exponent == SubSeq(text, e + 2, Len(text))
        p == Find(mantissa, ".")
        whole == SubSeq(mantissa, 1, p - 1)
        frac == SubSeq(mantissa, p + 1, Len(mantissa))
        digits == whole \o frac
        shift == 6 - Len(frac) - NumberOf(exponent)
    IN IF /\ whole # <<>>
          /\ \A i \in DOMAIN digits : DigitOf(digits[i]) >= 0
          /\ \A i \in DOMAIN exponent : DigitOf(exponent[i]) >= 0
          /\ e <= Len(text) => (Len(text) >= e + 2 /\ text[e + 1] = "-")
          /\ shift >= 0
       THEN NumberOf(digits) * Pow10(shift)
       ELSE -1

RECURSIVE ColumnsBefore(_, _)
\* the number of TestResults in the suites before the s-th
ColumnsBefore(test_suite_results, s) ==
    IF s = 1
    THEN 0
    ELSE ColumnsBefore(test_suite_results, s - 1)
            + Len(test_suite_results[s - 1].test_results)

CsvWritten ==
    /\ last.op = "write_results_to_csv"
    /\ last.repo_results # <<>>
    /\ last.results_file.dir \in ExistingDirs
    /\ ResultsFilePath(last.results_file) \notin ExistingDirs

C20_CsvHeaderAndRows ==
    CsvWritten =>
        /\ last.exc = NoExc
        /\ \E read \in {CsvRead(drv.files[ResultsFilePath(last.results_file)])} :
            LET repo_results == last.repo_results
                first == repo_results[1].test_suite_results
            IN /\ Len(read) = 1 + Len(repo_results)
               /\ read[1][1] = <<"r", "e", "p", "o">>
               /\ Len(read[1]) = 1 + ColumnsBefore(first, Len(first) + 1)
               /\ \A s \in DOMAIN first : \A t \in DOMAIN first[s].test_results :
                    read[1][1 + ColumnsBefore(first, s) + t] =
                        first[s].name \o <<"_">> \o first[s].test_results[t].name
               /\ \A k \in DOMAIN repo_results :
                    LET suites == repo_results[k].test_suite_results
                    IN /\ Len(read[k + 1]) = 1 + ColumnsBefore(suites, Len(suites) + 1)
                       /\ read[k + 1][1] = repo_results[k].name
                       /\ \A s \in DOMAIN suites : \A t \in DOMAIN suites[s].test_results :
                            MicrosOf(read[k + 1][1 + ColumnsBefore(suites, s) + t]) =
                                suites[s].test_results[t].time_delta

\* an existing file was overwritten with two entries of different width,
\* names that need quoting, and times below and above 1e-04 seconds
C20_Witness ==
    /\ CsvWritten
    /\ last.exc = NoExc
    /\ last.results_file.name = "old.csv"
    /\ drv.files["d0/old.csv"] # OldText
    /\ Len(last.repo_results) = 2
    /\ last.repo_results[1].name = <<"a", ",", "b">>
    /\ Len(last.repo_results[1].test_suite_results) = 2
    /\ last.repo_results[1].test_suite_results[1].name = <<"q", "\"">>
    /\ Len(last.repo_results[2].test_suite_results) = 1
    /\ last.repo_results[2].test_suite_results[1].test_results[2].time_delta = 5

(***************************************************************************)
(* SpecVal: a caller constructs an Include or an Exclude from a string of  *)
(* up to MaxLen characters and calls validate on outputs of up to MaxLen   *)
(* characters, MaxOps times.                                               *)
(***************************************************************************)
MaxLen == 3

Alphabet == {"a", "b"}
Strings == UNION {[1..n -> Alphabet] : n \in 0..MaxLen}

ValOp(validator, command_stdout, result) ==
    [op |-> "Validator.validate", validator |-> validator,
     command_stdout |-> command_stdout, result |-> result]

InitVal ==
    \E x \in Strings :
       /\ heap = <<>>
       /\ cwd = ConstructionDir
       /\ env = InitialEnv
       /\ log = <<>>
       /\ last = NoOp
       /\ drv \in {[validator |-> Include(x), n |-> 0],
                   [validator |-> Exclude(x), n |-> 0]}

ValidatorValidateCall ==
    /\ drv.n < MaxOps
    /\ \E command_stdout \in Strings :
        \E r \in {ValidatorValidate(drv.validator, command_stdout)} :
           /\ last' = ValOp(drv.validator, command_stdout, r)
           /\ drv' = [drv EXCEPT !.n = @ + 1]
    /\ UNCHANGED <<heap, cwd, env, log>>

NextVal == ValidatorValidateCall

SpecVal == InitVal /\ [][NextVal]_vars

(***************************************************************************)
(* C21: Include(x).validate(s) is true iff x is a substring of s (s is     *)
(* some text, then x, then some text), Exclude(x).validate(s) is true iff  *)
(* it is not; validate leaves the Validator as it was, and validating the  *)
(* same output again gives the same answer.                                *)
(***************************************************************************)
Occurs(x, s) ==
    \E before \in 0..Len(s), after \in 0..Len(s) :
        /\ before + Len(x) + after = Len(s)
        /\ s = SubSeq(s, 1, before) \o x \o SubSeq(s, Len(s) - after + 1, Len(s))

C21_Answer ==
    last.op = "Validator.validate" =>
        /\ last.validator = drv.validator
        /\ last.validator.kind = "Include" =>
              (last.result <=> Occurs(last.validator.s, last.command_stdout))
        /\ last.validator.kind = "Exclude" =>
              (last.result <=> ~Occurs(last.validator.s, last.command_stdout))

C21_IncludeExcludeComplement ==
    /\ [](C21_Answer)
    /\ [][/\ drv'.validator = drv.validator
          /\ (last.op = "Validator.validate"
                /\ last'.command_stdout = last.command_stdout) =>
                    last'.result = last.result]_vars

\* an Include found its string inside the output, not at its start, for
\* the second time
C21_Witness ==
    /\ last.op = "Validator.validate"
    /\ drv.n = 2
    /\ drv.validator = Include(<<"b", "a">>)
    /\ last.command_stdout = <<"a", "b", "a">>
    /\ last.result

(***************************************************************************)
(* C22: after with_working_directory(d) of a composite, the composite's    *)
(* own working_directory is d, and a run() of the composite that follows   *)
(* invokes it with d as the current directory.                             *)
(***************************************************************************)
CompositeRetargeted ==
    last.op = "with_working_directory" /\ heap[last.id].kind = "Composite"

C22_CompositeOwnDirectory ==
    /\ [](CompositeRetargeted => heap[last.ret].working_directory = last.dir)
    /\ [][(CompositeRetargeted /\ last'.op = "run" /\ last'.id = last.ret) =>
            \A i \in DOMAIN log' :
                (log'[i].e = "invoke" /\ log'[i].id = last.ret) =>
                    log'[i].dir = last.dir]_vars

(***************************************************************************)
(* C23: with_working_directory(d) and add_validation_checks(cs) of a       *)
(* composite return the composite itself, keep the number and the order of *)
(* the children at every depth, and afterwards every leaf under the        *)
(* composite has working_directory d, respectively its former checks       *)
(* followed by cs.                                                         *)
(***************************************************************************)
RECURSIVE LeavesOf(_, _), LeavesOfEach(_, _), ShapeOf(_, _)
\* the leaf Commands under id, from left to right
LeavesOf(h, id) ==
    IF h[id].kind = "Composite" THEN LeavesOfEach(h, h[id].commands) ELSE <<id>>

LeavesOfEach(h, ids) ==
    IF ids = <<>> THEN <<>> ELSE LeavesOf(h, Head(ids)) \o LeavesOfEach(h, Tail(ids))

\* the tree under id: classes and arguments, without the objects' identity
ShapeOf(h, id) ==
    [kind |-> h[id].kind, args |-> h[id].args,
     commands |-> [k \in DOMAIN h[id].commands |-> ShapeOf(h, h[id].commands[k])]]

CompositeOverride(op) ==
    /\ drv'.n = drv.n + 1
    /\ last'.op = op
    /\ heap[last'.id].kind = "Composite"

C24_FailsBeforeAnyRun ==
    (CallerIsRunTests /\ ~RunPreconditions) =>
        /\ log = <<>>
        /\ heap = drv.heap0
        /\ drv.pc \in {"idle", "done"}
        /\ drv.pc = "done" => (last.op = "run_tests" /\ last.exc # NoExc)

\* the root of the second repo is missing; the first one has a
\* sub-directory and there is a suite to run
C24_Witness ==
    /\ RunDone
    /\ last.exc = FileNotFoundError
    /\ drv.repos_root = "/root"
    /\ drv.repos = <<RepoSpec("r1", <<"s1">>), RepoSpec("missing", <<"s1">>)>>
    /\ Len(drv.test_suites) = 2
    /\ drv.repetitions = 2
    /\ log = <<>>

(***************************************************************************)
(* C25: whenever test_suite_repeater returns, the Test names of the merged *)
(* TestSuiteResult are, element for element, the Test names of the first   *)
(* repetition's TestSuiteResult, and no merged TestResult refers to a      *)
(* Command.                                                                *)
(***************************************************************************)
NameList(test_results) == [i \in DOMAIN test_results |-> test_results[i].name]

C25_MergedNamesAreFirstRepetitions ==
    (CallerIsRep /\ RepReturned) =>
        /\ NameList(last.result.test_results) = NameList(drv.observed[1].test_results)
        /\ \A i \in DOMAIN last.result.test_results :
              last.result.test_results[i].command = NoCommand

(***************************************************************************)
(* C26: in a run_tests that returns, all TestSuiteResults that one         *)
(* TestSuite of test_suites produced, in every repetition and for every    *)
(* sub-directory, have the same list of Test names; every entry of the     *)
(* returned list has the same flattened sequence of (suite name, test      *)
(* name) columns as the first entry, the one the CSV header is made from.  *)
(* drv.produced are the TestSuiteResults the suites returned, each with    *)
(* the position of its suite in test_suites.                               *)
(***************************************************************************)
RECURSIVE FlatColumns(_)
FlatColumns(test_suite_results) ==
    IF test_suite_results = <<>>
    THEN <<>>
    ELSE [t \in DOMAIN Head(test_suite_results).test_results |->
            <<Head(test_suite_results).name,
              Head(test_suite_results).test_results[t].name>>]
         \o FlatColumns(Tail(test_suite_results))

SameColumnsEverywhere ==
    \A k \in DOMAIN last.result :
        FlatColumns(last.result[k].test_suite_results) =
            FlatColumns(last.result[1].test_suite_results)

C26_SameTestNamesPerSuite ==
    (CallerIsRunTests /\ RunReturned) =>
        /\ \A i \in DOMAIN drv.produced, j \in DOMAIN drv.produced :
              drv.produced[i].u = drv.produced[j].u =>
                  drv.produced[i].names = drv.produced[j].names
        /\ SameColumnsEverywhere

\* the claim: the same list of Test names for the same TestSuite name
C26_Original ==
    (CallerIsRunTests /\ RunReturned) =>
        /\ \A i \in DOMAIN drv.produced, j \in DOMAIN drv.produced :
              drv.produced[i].name = drv.produced[j].name =>
                  drv.produced[i].names = drv.produced[j].names
        /\ SameColumnsEverywhere

\* two suites of two and one Test were run twice in each of two
\* sub-directories of two repositories
C26_Witness ==
    /\ CallerIsRunTests
    /\ RunReturned
    /\ Len(last.result) = 2
    /\ drv.repetitions = 2
    /\ Len(drv.produced) = 8
    /\ Len(drv.repos) = 2
    /\ Len(FlatColumns(last.result[2].test_suite_results)) = 3
    /\ drv.test_suites[1].name # drv.test_suites[2].name

(***************************************************************************)
(* C27: the interval Test.run measures holds one run() of the test Command *)
(* and nothing else: it starts after the root-setup and the local-setup    *)
(* were run and validated and after the test Command was retargeted, the   *)
(* first thing in it is the run() of that Command, the exit of that run()  *)
(* is the last, and the validation of the test Command comes after it.     *)
(***************************************************************************)
TimerStarts == {i \in DOMAIN log : log[i].e = "timer_start"}
TimerStops == {i \in DOMAIN log : log[i].e = "timer_stop"}

C27_TimedIntervalIsOneRun ==
    last.op = "Test.run" =>
        /\ Cardinality(TimerStarts) <= 1
        /\ Cardinality(TimerStops) <= Cardinality(TimerStarts)
        /\ last.exc = NoExc => Cardinality(TimerStops) = 1
        /\ \A p \in TimerStarts :
            /\ StageCompleted(log, 1)
            /\ StageCompleted(log, 2)
            /\ p = NthStage(log, 3) + 1
            /\ log[p - 1].x = StageMark("test")
            /\ log[p - 1].id = log[p].id
            /\ log[p + 1].e = "run"
            /\ log[p + 1].id = log[p].id
            /\ HasExit(log, p + 1)
            /\ \A i \in DOMAIN log : log[i].e \in {"validate", "check"} =>
                  (i < p \/ i > ExitOf(log, p + 1))
            /\ \A q \in TimerStops :
                /\ log[q].id = log[p].id
                /\ q = ExitOf(log, p + 1) + 1
                /\ log[q - 1].e = "return"
                /\ \A i \in (q + 1)..Len(log) : log[i].e \in {"validate", "check", "fail"}
                /\ q < Len(log) => log[q + 1].e = "validate"

\* the timed Command is a composite, so that its run() holds the run() of
\* its children, the local setup is a process with a check, and everything
\* passed
C27_Witness ==
    /\ last.op = "Test.run"
    /\ last.exc = NoExc
    /\ heap[drv.test.test_command].kind = "Composite"
    /\ heap[drv.test.setup_command].kind = "Process"
    /\ \E q \in TimerStops :
        /\ Cardinality({i \in (q + 1)..Len(log) : log[i].e = "validate"}) >= 2
        /\ \E i \in 1..(q - 1) : log[i].e = "check"
        /\ Cardinality({i \in 1..(q - 1) : log[i].e = "run" /\ i > NthStage(log, 3)}) >= 2

(***************************************************************************)
(* C28: an object passed to the Commands(...) constructor (drv.given) is   *)
(* as it was before the construction, whatever was done with the           *)
(* composite since: its working_directory, validation checks, captured     *)
(* output and children are unchanged, and it is no child of the composite. *)
(***************************************************************************)
C28_GivenCommandsUntouched ==
    (CallerIsCmd /\ drv.given # {}) =>
        \A g \in drv.given :
            /\ heap[g] = drv.heap0[g]
            /\ heap[g].working_directory = ConstructionDir
            /\ heap[g].captured_output = NoOutput
            /\ \A r \in drv.refs : g \notin Reach(heap, r) \ {r}

\* a composite of a composite was retargeted, given a check and run: its
\* leaves hold output, the objects it was constructed from do not
C28_Witness ==
    /\ CallerIsCmd
    /\ Cardinality(drv.given) = 3
    /\ drv.n = 3
    /\ last.op = "run"
    /\ last.exc = NoExc
    /\ heap[last.id].kind = "Composite"
    /\ \E g \in drv.given : heap[g].kind = "Composite"
    /\ \E g \in drv.given : heap[g].validation_checks = <<IncA>>
    /\ \A k \in DOMAIN LeavesOf(heap, last.id) :
        LET leaf == heap[LeavesOf(heap, last.id)[k]]
        IN /\ leaf.captured_output # NoOutput
           /\ leaf.working_directory = "d1"
           /\ Len(leaf.validation_checks) >= 1

====
